---- MODULE Spec2Model ----
(***************************************************************************)
(* A model of ableton-mcp: the Command Server that runs inside the host    *)
(* (AbletonMCP_Remote_Script/core/main.py), its handler groups, and the    *)
(* Connection Client of the adapter process (MCP_Server/core/connection.py).*)
(*                                                                         *)
(* A text is a sequence of tokens.  A token is a record; the text of a     *)
(* JSON object is  { member ... member } , the text of a JSON number is a  *)
(* non-empty run of digit tokens, and [ ] is the empty array.  Dumps and   *)
(* Loads are json.dumps and json.loads on texts.  What travels on a socket *)
(* is bytes: Encode and Decode are str.encode("utf-8") and                 *)
(* bytes.decode("utf-8"); a token that holds a multi-byte character is two *)
(* bytes, every other token one.                                           *)
(* Tempi are in thousandths of a BPM, so that 19.999 is 19999.             *)
(***************************************************************************)
EXTENDS Integers, Sequences, FiniteSets, TLC

VARIABLES
    running,      \* AbletonMCP.running
    listening,    \* the listener socket self.server is open
    song,         \* the host's song: tempo, transport, tracks, selected track
    wstate,       \* per connection: where its worker thread is
    buffer,       \* per connection: the worker's text buffer
    inbox,        \* per connection: bytes the peer wrote, not yet received
    peer,         \* per connection: what the peer did to its end of the socket
    mainQueue,    \* the host's queue of scheduled main-thread callbacks (FIFO)
    respQ,        \* results put on the response queues, one queue per request
    lastRun,      \* the last handler executed: command type and thread
    nWritten,     \* per connection: requests the peer has written
    lastWritten,  \* per connection: the bytes of the last request the peer wrote
    framed,       \* per connection: the peer wrote one object at a time so far
    nParsed,      \* per connection: buffers the worker parsed
    lastParsed,   \* per connection: the last value the worker parsed
    nSent,        \* per connection: responses the worker sent to what it parsed
    lastSent,     \* per connection: the last response sent, the request it
                  \* answers and the request whose task produced it
    stray,        \* per connection: error responses sent for data that did
                  \* not decode
    sock,         \* AbletonConnection.sock: 0 is None, else the socket it holds
    opened,       \* sockets the Connection Client has connected so far
    link,         \* per socket: the state of its connection
    rx,           \* per socket: bytes the server wrote, not yet received
    pending,      \* per socket: commands written that the server has not answered
    cpc,          \* where send_command is: "idle" or "receiving"
    ccmd,         \* the command of the current call of send_command
    rchunks,      \* receive_full_response: the chunks received, joined
    nCalls,       \* calls of send_command started
    nOutcomes,    \* calls of send_command that returned or raised
    lastOutcome,  \* what the last finished call did, and the socket it used
    writes,       \* per socket: commands written to it
    callWrites,   \* times the current call wrote its command
    failed,       \* sockets held by a call of send_command that raised
    conn,         \* _ableton_connection: FALSE is None, TRUE an AbletonConnection
    gpc,          \* where the tool invocation is: "idle", "attempt", "probe", "send"
    attempt,      \* get_ableton_connection: the attempt of its loop, 0 outside it
    mark,         \* nOutcomes when the invocation came to its call of send_command
    tcmd,         \* the command of the tool invocation
    gSocks,       \* sockets connected by the current call of get_ableton_connection
    gOutcome,     \* how the last call of get_ableton_connection ended
    probed,       \* sockets on which the probe command has returned a result
    closedByClient, \* sockets the Connection Client has called close() on
    cret,         \* the last call of connect(): the handle before and after it,
                  \* the sockets connected before and after it, what it returned
    hcmd,         \* the command last processed by _process_command on its own
    hresp,        \* the response to it
    hprior,       \* the song before it
    hn,           \* the commands processed that way
    impl,         \* the class whose _server_thread accepts: AbletonMCP or SocketServer
    handler,      \* SocketServer.client_handler is set
    apc,          \* where _server_thread is: at its loop test, in accept(), returned
    dpc,          \* how far disconnect() / stop() has come
    accepted,     \* the connections accept() has returned
    spawned,      \* per connection, the worker threads started for it
    tool,         \* the tool function called last, with its arguments
    tstep,        \* which of its calls of send_command it is at; 0 when it has returned
    tlog,         \* its calls of send_command that have ended: command and outcome
    tret          \* what it returned

srvVars == <<running, listening, song, wstate, buffer, inbox, peer, mainQueue,
             respQ, lastRun, nWritten, lastWritten, framed, nParsed, lastParsed,
             nSent, lastSent, stray>>

cliVars == <<sock, opened, link, rx, pending, cpc, ccmd, rchunks, nCalls, nOutcomes,
             lastOutcome, writes, callWrites, failed>>

accVars == <<conn, gpc, attempt, mark, tcmd, gSocks, gOutcome, probed,
             closedByClient, cret>>

hostVars == <<hcmd, hresp, hprior, hn>>

lifeVars == <<impl, handler, apc, dpc, accepted, spawned>>

toolVars == <<tool, tstep, tlog, tret>>

vars == <<srvVars, cliVars, accVars, hostVars, lifeVars, toolVars>>

-----------------------------------------------------------------------------
(* Bounds of the model *)

NumConns == 2       \* client connections the listener can accept
MaxReqs == 2        \* requests written by all peers together
MaxFaults == 1      \* connections the peers close or reset
NumScenes == 1      \* clip slots of every track
MaxCalls == 3       \* calls of send_command
MaxCmds == 3        \* commands processed one after the other on the host

(* Program constants *)

MinTempo == 20000       \* validate_tempo: 20.0
MaxTempo == 999000      \* validate_tempo: 999.0
DefaultTempo == 120000  \* params.get("tempo", 120.0)
DefaultLength == 4      \* params.get("length", 4.0)
DefaultIndex == -1      \* params.get("index", -1)
DefaultPitch == 60
DefaultVelocity == 100
MaxDepth == 10          \* _find_browser_item_by_uri(max_depth=10)

Conns == 1..NumConns

(* Every call of send_command connects one socket at most *)
Sockets == 1..MaxCalls

-----------------------------------------------------------------------------
(* dict.get(key, default) *)
Get(d, key, default) == IF key \in DOMAIN d THEN d[key] ELSE default

-----------------------------------------------------------------------------
(* JSON texts *)

LB == [k |-> "{"]
RB == [k |-> "}"]
LSQ == [k |-> "["]
RSQ == [k |-> "]"]
Digit(d) == [k |-> "digit", v |-> d]
(* A member as json.dumps writes it: ASCII only, a character beyond ASCII  *)
(* escaped                                                                  *)
Member(key, v) == [k |-> "member", key |-> key, v |-> v]

(* A member in whose text a character beyond ASCII is written as it is      *)
RawMember(key, v) == [k |-> "raw", key |-> key, v |-> v]

(* The bytes of a token that holds a multi-byte character: the bytes up to *)
(* and with the first byte of the character, and the bytes from its         *)
(* continuation byte on                                                     *)
Lead(tok) == [k |-> "lead", m |-> tok]
Trail(tok) == [k |-> "trail", m |-> tok]

IsDigit(tok) == tok.k = "digit"
IsMember(tok) == tok.k \in {"member", "raw"}

(* str.encode("utf-8") *)
RECURSIVE Encode(_)
Encode(text) ==
    IF text = <<>> THEN <<>>
    ELSE (IF text[1].k = "raw" THEN <<Lead(text[1]), Trail(text[1])>> ELSE <<text[1]>>)
         \o Encode(Tail(text))

(* bytes.decode("utf-8"): the text, or UnicodeDecodeError when a multi-byte *)
(* character is cut off at the end of the data or the data begins inside   *)
(* one                                                                      *)
RECURSIVE Decode(_)
Decode(data) ==
    IF data = <<>> THEN [ok |-> TRUE, text |-> <<>>]
    ELSE IF data[1].k = "trail" THEN [ok |-> FALSE]
    ELSE IF data[1].k = "lead"
        THEN IF Len(data) >= 2 /\ data[2] = Trail(data[1].m)
             THEN LET rest == Decode(SubSeq(data, 3, Len(data))) IN
                  IF rest.ok THEN [ok |-> TRUE, text |-> <<data[1].m>> \o rest.text]
                  ELSE rest
             ELSE [ok |-> FALSE]
    ELSE LET rest == Decode(Tail(data)) IN
         IF rest.ok THEN [ok |-> TRUE, text |-> <<data[1]>> \o rest.text] ELSE rest

(* The keys of the envelopes, in the order the program inserts them: a      *)
(* command is {"type", "params"}, a response {"status", "result",           *)
(* "message"}                                                               *)
KeyOrder == <<"type", "params", "status", "result", "message">>

(* json.dumps of an envelope: one member per key of the dict; a key the     *)
(* dict does not have is not written.                                       *)
RECURSIVE DumpMembers(_, _)
DumpMembers(obj, i) ==
    IF i > Len(KeyOrder) THEN <<>>
    ELSE (IF KeyOrder[i] \in DOMAIN obj
            THEN <<Member(KeyOrder[i], obj[KeyOrder[i]])>> ELSE <<>>)
         \o DumpMembers(obj, i + 1)

Dumps(obj) == <<LB>> \o DumpMembers(obj, 1) \o <<RB>>

(* The value of a run of digits *)
RECURSIVE DigitsValue(_)
DigitsValue(text) ==
    IF text = <<>> THEN 0
    ELSE 10 * DigitsValue(SubSeq(text, 1, Len(text) - 1)) + text[Len(text)].v

(* The dict of the members text[2..n-1]; of two members with one key the    *)
(* later one wins                                                           *)
ObjectOf(text) ==
    LET inner == 2..(Len(text) - 1)
        last(key) == CHOOSE i \in inner :
                        /\ text[i].key = key
                        /\ \A j \in inner : text[j].key = key => j <= i
    IN  [key \in {text[i].key : i \in inner} |-> text[last(key)].v]

(* json.loads: the value of a text that is exactly one JSON value, and      *)
(* ValueError ("invalid") for every other text: the empty text, a proper   *)
(* prefix of an object, and a complete value followed by more text.         *)
Loads(text) ==
    LET n == Len(text) IN
    IF n = 0 THEN [kind |-> "invalid"]
    ELSE IF \A i \in 1..n : IsDigit(text[i])
        THEN [kind |-> "number", value |-> DigitsValue(text)]
    ELSE IF text = <<LSQ, RSQ>> THEN [kind |-> "array"]
    ELSE IF n >= 2 /\ text[1] = LB /\ text[n] = RB
                   /\ \A i \in 2..(n - 1) : IsMember(text[i])
        THEN [kind |-> "object", value |-> ObjectOf(text)]
    ELSE [kind |-> "invalid"]

(* json.loads(data.decode("utf-8")) *)
LoadsBytes(data) ==
    IF Decode(data).ok THEN Loads(Decode(data).text) ELSE [kind |-> "undecodable"]

-----------------------------------------------------------------------------
(* The host's object model (Live's song, tracks, clip slots, clips).  The   *)
(* host is not part of the repository: these operators state what its API   *)
(* does to the song when a handler calls it.                                *)

NoClip == [name |-> "", length |-> 0, notes |-> <<>>, is_playing |-> FALSE]
EmptySlot == [has_clip |-> FALSE, clip |-> NoClip]
NewTrack(name) ==
    [name |-> name, clip_slots |-> [i \in 1..NumScenes |-> EmptySlot], devices |-> <<>>]

(* The song the script finds when the host loads it *)
InitSong ==
    [tempo |-> DefaultTempo, is_playing |-> FALSE,
     tracks |-> <<NewTrack("1-MIDI")>>, selected_track |-> 0]

InsertAt(seq, i, x) == SubSeq(seq, 1, i) \o <<x>> \o SubSeq(seq, i + 1, Len(seq))

(* song.tracks[t].clip_slots[c], both indices counted from 0 *)
SlotAt(s, t, c) == s.tracks[t + 1].clip_slots[c + 1]

WithSlot(s, t, c, slot) ==
    [s EXCEPT !.tracks[t + 1].clip_slots[c + 1] = slot]

(* What a handler hands back: a result, or an exception with its message;  *)
(* either way the song as the handler left it.                              *)
Ok(result, s) == [ok |-> TRUE, result |-> result, song |-> s]
Raise(message, s) == [ok |-> FALSE, message |-> message, song |-> s]

-----------------------------------------------------------------------------
(* utils/validation.py *)

ValidTrackIndex(track_index, s) ==
    ~(track_index < 0 \/ track_index >= Len(s.tracks))

ValidClipIndex(clip_index, track) ==
    ~(clip_index < 0 \/ clip_index >= Len(track.clip_slots))

(* The range without its ends *)
ValidTempoOpen(tempo) == MinTempo < tempo /\ tempo < MaxTempo

ValidTempo(tempo) == MinTempo <= tempo /\ tempo <= MaxTempo

(* str() of a float, as the f-string of validate_tempo prints the tempo:    *)
(* 10000 thousandths is "10.0", 140500 is "140.5".                          *)
FloatStr(t) ==
    LET f == t % 1000
        frac == IF f % 100 = 0 THEN ToString(f \div 100)
                ELSE IF f % 10 = 0
                     THEN (IF f < 100 THEN "0" ELSE "") \o ToString(f \div 10)
                     ELSE (IF f < 10 THEN "00" ELSE IF f < 100 THEN "0" ELSE "")
                          \o ToString(f)
    IN ToString(t \div 1000) \o "." \o frac

TempoMessage(tempo) ==
    "Tempo must be between 20.0 and 999.0, got " \o FloatStr(tempo)

-----------------------------------------------------------------------------
(* handlers/session_handlers.py *)

get_session_info(s) ==
    Ok([tempo |-> s.tempo, signature_numerator |-> 4, signature_denominator |-> 4,
        track_count |-> Len(s.tracks), return_track_count |-> 0], s)

ClipSlotInfo(track) ==
    [i \in 1..Len(track.clip_slots) |->
        [index |-> i - 1, has_clip |-> track.clip_slots[i].has_clip,
         clip |-> IF track.clip_slots[i].has_clip
                  THEN [name |-> track.clip_slots[i].clip.name,
                        length |-> track.clip_slots[i].clip.length,
                        is_playing |-> track.clip_slots[i].clip.is_playing]
                  ELSE << >>]]

get_track_info(s, track_index) ==
    IF ~ValidTrackIndex(track_index, s) THEN Raise("Track index out of range", s)
    ELSE LET track == s.tracks[track_index + 1] IN
         Ok([index |-> track_index, name |-> track.name,
             clip_slots |-> ClipSlotInfo(track), devices |-> track.devices], s)

create_midi_track(s, index) ==
    IF index = -1 \/ (0 <= index /\ index <= Len(s.tracks))
    THEN LET new_track_index == IF index = -1 THEN Len(s.tracks) ELSE index
             s2 == [s EXCEPT !.tracks = InsertAt(@, new_track_index, NewTrack("MIDI"))]
         IN Ok([index |-> new_track_index, name |-> s2.tracks[new_track_index + 1].name], s2)
    ELSE Raise("Index out of range", s)

(* A negative index counted from the end of the track list *)
set_track_nameFromEnd(s, track_index, name) ==
    IF track_index >= Len(s.tracks) \/ track_index < -Len(s.tracks)
        THEN Raise("Track index out of range", s)
    ELSE LET i == IF track_index < 0 THEN track_index + Len(s.tracks) ELSE track_index
             s2 == [s EXCEPT !.tracks[i + 1].name = name]
         IN Ok([name |-> s2.tracks[i + 1].name], s2)

set_track_name(s, track_index, name) ==
    IF ~ValidTrackIndex(track_index, s) THEN Raise("Track index out of range", s)
    ELSE LET s2 == [s EXCEPT !.tracks[track_index + 1].name = name]
         IN Ok([name |-> s2.tracks[track_index + 1].name], s2)

set_tempo(s, tempo) ==
    IF ~ValidTempo(tempo) THEN Raise(TempoMessage(tempo), s)
    ELSE LET s2 == [s EXCEPT !.tempo = tempo] IN Ok([tempo |-> s2.tempo], s2)

-----------------------------------------------------------------------------
(* handlers/playback_handlers.py *)

start_playback(s) ==
    LET s2 == [s EXCEPT !.is_playing = TRUE] IN Ok([playing |-> s2.is_playing], s2)

stop_playback(s) ==
    LET s2 == [s EXCEPT !.is_playing = FALSE] IN Ok([playing |-> s2.is_playing], s2)

-----------------------------------------------------------------------------
(* handlers/clip_handlers.py *)

(* The index checks every clip handler starts with: the exception message, *)
(* or "" when both indices are in range.                                    *)
IndexError(s, track_index, clip_index) ==
    IF track_index < 0 \/ track_index >= Len(s.tracks) THEN "Track index out of range"
    ELSE IF clip_index < 0 \/ clip_index >= Len(s.tracks[track_index + 1].clip_slots)
        THEN "Clip index out of range"
    ELSE ""

(* The clip created whether or not the slot holds one *)
create_clipOver(s, track_index, clip_index, length) ==
    IF IndexError(s, track_index, clip_index) # ""
        THEN Raise(IndexError(s, track_index, clip_index), s)
    ELSE LET clip == [NoClip EXCEPT !.length = length]
             s2 == WithSlot(s, track_index, clip_index, [has_clip |-> TRUE, clip |-> clip])
         IN Ok([name |-> clip.name, length |-> clip.length], s2)

create_clip(s, track_index, clip_index, length) ==
    IF IndexError(s, track_index, clip_index) # ""
        THEN Raise(IndexError(s, track_index, clip_index), s)
    ELSE IF SlotAt(s, track_index, clip_index).has_clip
        THEN Raise("Clip slot already has a clip", s)
    ELSE LET clip == [NoClip EXCEPT !.length = length]
             s2 == WithSlot(s, track_index, clip_index, [has_clip |-> TRUE, clip |-> clip])
         IN Ok([name |-> clip.name, length |-> clip.length], s2)

(* The tuple add_notes_to_clip builds from one note of the payload *)
LiveNote(note) ==
    <<Get(note, "pitch", DefaultPitch), Get(note, "start_time", 0),
      Get(note, "duration", 1), Get(note, "velocity", DefaultVelocity),
      Get(note, "mute", FALSE)>>

add_notes_to_clip(s, track_index, clip_index, notes) ==
    IF IndexError(s, track_index, clip_index) # ""
        THEN Raise(IndexError(s, track_index, clip_index), s)
    ELSE IF ~SlotAt(s, track_index, clip_index).has_clip THEN Raise("No clip in slot", s)
    ELSE LET live_notes == [i \in 1..Len(notes) |-> LiveNote(notes[i])]
             slot == SlotAt(s, track_index, clip_index)
             s2 == WithSlot(s, track_index, clip_index,
                            [slot EXCEPT !.clip.notes = @ \o live_notes])
         IN Ok([note_count |-> Len(notes)], s2)

set_clip_name(s, track_index, clip_index, name) ==
    IF IndexError(s, track_index, clip_index) # ""
        THEN Raise(IndexError(s, track_index, clip_index), s)
    ELSE IF ~SlotAt(s, track_index, clip_index).has_clip THEN Raise("No clip in slot", s)
    ELSE LET slot == SlotAt(s, track_index, clip_index)
             s2 == WithSlot(s, track_index, clip_index, [slot EXCEPT !.clip.name = name])
         IN Ok([name |-> name], s2)

(* The slot fired whether or not it holds a clip *)
fire_clipUnchecked(s, track_index, clip_index) ==
    IF IndexError(s, track_index, clip_index) # ""
        THEN Raise(IndexError(s, track_index, clip_index), s)
    ELSE LET slot == SlotAt(s, track_index, clip_index)
             s2 == WithSlot([s EXCEPT !.is_playing = TRUE], track_index, clip_index,
                            [slot EXCEPT !.clip.is_playing = TRUE])
         IN Ok([fired |-> TRUE, name |-> slot.clip.name], s2)

fire_clip(s, track_index, clip_index) ==
    IF IndexError(s, track_index, clip_index) # ""
        THEN Raise(IndexError(s, track_index, clip_index), s)
    ELSE IF ~SlotAt(s, track_index, clip_index).has_clip THEN Raise("No clip in slot", s)
    ELSE LET slot == SlotAt(s, track_index, clip_index)
             s2 == WithSlot([s EXCEPT !.is_playing = TRUE], track_index, clip_index,
                            [slot EXCEPT !.clip.is_playing = TRUE])
         IN Ok([fired |-> TRUE, name |-> slot.clip.name], s2)

stop_clip(s, track_index, clip_index) ==
    IF IndexError(s, track_index, clip_index) # ""
        THEN Raise(IndexError(s, track_index, clip_index), s)
    ELSE IF ~SlotAt(s, track_index, clip_index).has_clip THEN Raise("No clip in slot", s)
    ELSE LET slot == SlotAt(s, track_index, clip_index)
             s2 == WithSlot(s, track_index, clip_index,
                            [slot EXCEPT !.clip.is_playing = FALSE])
         IN Ok([stopped |-> TRUE, name |-> slot.clip.name], s2)

-----------------------------------------------------------------------------
(* The host's browser: a tree of items under root categories.  The browser *)
(* object itself has no uri and no children, only its category attributes.  *)

Item(name, uri, is_device, is_loadable, children) ==
    [name |-> name, uri |-> uri, is_folder |-> children # <<>>,
     is_device |-> is_device, is_loadable |-> is_loadable, children |-> children]

(* A chain of folders, one in the other, from depth d below the browser to *)
(* depth MaxDepth + 1; a root category is at depth 1                        *)
RECURSIVE Nested(_)
Nested(d) ==
    Item("Folder", "uri:depth" \o ToString(d), FALSE, FALSE,
         IF d <= MaxDepth THEN <<Nested(d + 1)>> ELSE <<>>)

Browser ==
    [instruments |-> Item("Instruments", "cat:instruments", FALSE, FALSE,
        <<Item("Drum Rack", "uri:rack", TRUE, TRUE, <<>>)>>),
     sounds |-> Item("Sounds", "cat:sounds", FALSE, FALSE, <<Nested(2)>>),
     drums |-> Item("Drums", "cat:drums", FALSE, FALSE,
        <<Item("Kits", "uri:kits", FALSE, FALSE,
            <<Item("Kit", "uri:kit", FALSE, TRUE, <<>>)>>)>>),
     audio_effects |-> Item("Audio Effects", "cat:audio_effects", FALSE, FALSE, <<>>),
     midi_effects |-> Item("MIDI Effects", "cat:midi_effects", FALSE, FALSE, <<>>),
     packs |-> Item("Packs", "cat:packs", FALSE, FALSE,
        <<Item("Pack", "uri:pack", FALSE, TRUE, <<>>)>>)]

(* dir(app.browser) without the private names *)
BrowserAttrs == <<"audio_effects", "drums", "instruments", "midi_effects", "packs", "sounds">>

StandardCategories == <<"instruments", "sounds", "drums", "audio_effects", "midi_effects">>

(* None *)
NoItem == << >>

(* str.lower() and str.capitalize() on the names the browser holds *)
Lower(str) ==
    CASE str = "Instruments" -> "instruments"
      [] str = "Sounds" -> "sounds"
      [] str = "Drums" -> "drums"
      [] str = "Drum Rack" -> "drum rack"
      [] str = "Kits" -> "kits"
      [] str = "Kit" -> "kit"
      [] str = "Pack" -> "pack"
      [] str = "Packs" -> "packs"
      [] str = "Audio Effects" -> "audio effects"
      [] str = "MIDI Effects" -> "midi effects"
      [] str = "DRUMS" -> "drums"
      [] OTHER -> str

Capitalize(str) ==
    CASE str = "packs" -> "Packs"
      [] OTHER -> str

RECURSIVE FindBrowserItemByUri(_, _, _, _)
RECURSIVE FindInItems(_, _, _, _)

(* BrowserHandlers._find_browser_item_by_uri *)
FindBrowserItemByUri(browser_or_item, uri, max_depth, current_depth) ==
    IF "uri" \in DOMAIN browser_or_item /\ browser_or_item.uri = uri
        THEN browser_or_item
    ELSE IF current_depth >= max_depth THEN NoItem
    ELSE IF "instruments" \in DOMAIN browser_or_item
        THEN FindInItems([i \in 1..Len(StandardCategories) |->
                             browser_or_item[StandardCategories[i]]],
                         uri, max_depth, current_depth + 1)
    ELSE IF "children" \in DOMAIN browser_or_item /\ browser_or_item.children # <<>>
        THEN FindInItems(browser_or_item.children, uri, max_depth, current_depth + 1)
    ELSE NoItem

(* The loops of _find_browser_item_by_uri: the first item of the list under *)
(* which the uri is found                                                   *)
FindInItems(items, uri, max_depth, depth) ==
    IF items = <<>> THEN NoItem
    ELSE LET item == FindBrowserItemByUri(Head(items), uri, max_depth, depth) IN
         IF item # NoItem THEN item
         ELSE FindInItems(Tail(items), uri, max_depth, depth)

(* The descriptor get_browser_item returns for an item *)
ItemInfo(item) ==
    [name |-> item.name, is_folder |-> item.is_folder, is_device |-> item.is_device,
     is_loadable |-> item.is_loadable, uri |-> item.uri]

(* The child of an item with the given name, compared in lower case *)
ChildNamed(item, part) ==
    LET hits == {i \in 1..Len(item.children) : Lower(item.children[i].name) = Lower(part)}
    IN IF hits = {} THEN NoItem
       ELSE item.children[CHOOSE i \in hits : \A j \in hits : i <= j]

(* The path walk of get_browser_item and get_browser_items_at_path from     *)
(* path_parts[i]: the item reached, or the part that was not found          *)
RECURSIVE WalkPath(_, _, _)
WalkPath(current_item, path_parts, i) ==
    IF i > Len(path_parts) THEN [found |-> TRUE, item |-> current_item]
    ELSE IF path_parts[i] = "" THEN WalkPath(current_item, path_parts, i + 1)
    ELSE LET child == ChildNamed(current_item, path_parts[i]) IN
         IF child = NoItem THEN [found |-> FALSE, part |-> path_parts[i]]
         ELSE WalkPath(child, path_parts, i + 1)

(* BrowserHandlers.get_browser_item; a path is the list path.split("/"),   *)
(* and "" and <<>> stand for an absent uri and an absent path               *)
get_browser_item(s, uri, path) ==
    LET result == [uri |-> uri, path |-> path, found |-> FALSE]
        byUri == IF uri # "" THEN FindBrowserItemByUri(Browser, uri, MaxDepth, 0) ELSE NoItem
    IN  IF byUri # NoItem
            THEN Ok([uri |-> uri, path |-> path, found |-> TRUE, item |-> ItemInfo(byUri)], s)
        ELSE IF path # <<>>
            THEN LET std == Lower(path[1]) \in {StandardCategories[i] : i \in 1..5}
                     root == IF std THEN Browser[Lower(path[1])] ELSE Browser.instruments
                     path_parts == IF std THEN path ELSE <<"instruments">> \o path
                     walk == WalkPath(root, path_parts, 2)
                 IN  IF walk.found
                         THEN Ok([uri |-> uri, path |-> path, found |-> TRUE,
                                  item |-> ItemInfo(walk.item)], s)
                     ELSE Ok([uri |-> uri, path |-> path, found |-> FALSE,
                              error |-> "Path part '" \o walk.part \o "' not found"], s)
        ELSE Ok(result, s)

(* load_browser_item with the track selected before the item is looked up *)
load_browser_itemSelectsFirst(s, track_index, item_uri) ==
    IF ~ValidTrackIndex(track_index, s) THEN Raise("Track index out of range", s)
    ELSE LET item == FindBrowserItemByUri(Browser, item_uri, MaxDepth, 0)
             selected == [s EXCEPT !.selected_track = track_index]
         IN  IF item = NoItem
                 THEN Raise("Browser item with URI '" \o item_uri \o "' not found", selected)
             ELSE Ok([loaded |-> TRUE, item_name |-> item.name,
                      track_name |-> s.tracks[track_index + 1].name, uri |-> item_uri],
                     [selected EXCEPT !.tracks[track_index + 1].devices =
                                            Append(@, item.name)])

(* BrowserHandlers.load_browser_item *)
load_browser_item(s, track_index, item_uri) ==
    IF ~ValidTrackIndex(track_index, s) THEN Raise("Track index out of range", s)
    ELSE LET item == FindBrowserItemByUri(Browser, item_uri, MaxDepth, 0) IN
         IF item = NoItem
             THEN Raise("Browser item with URI '" \o item_uri \o "' not found", s)
         ELSE LET s2 == [s EXCEPT !.selected_track = track_index,
                                   !.tracks[track_index + 1].devices = Append(@, item.name)]
              IN Ok([loaded |-> TRUE, item_name |-> item.name,
                     track_name |-> s.tracks[track_index + 1].name, uri |-> item_uri], s2)

(* process_item of get_browser_tree, under the display name of the category *)
ProcessItem(item, name) ==
    [name |-> name, is_folder |-> item.children # <<>>, is_device |-> item.is_device,
     is_loadable |-> item.is_loadable, uri |-> item.uri, children |-> <<>>]

CategoryName(attr) ==
    CASE attr = "instruments" -> "Instruments"
      [] attr = "sounds" -> "Sounds"
      [] attr = "drums" -> "Drums"
      [] attr = "audio_effects" -> "Audio Effects"
      [] attr = "midi_effects" -> "MIDI Effects"
      [] OTHER -> Capitalize(attr)

(* The attributes get_browser_tree visits, in its order: the five standard *)
(* categories, then the other attributes of the browser                     *)
TreeOrder ==
    StandardCategories \o
    SelectSeq(BrowserAttrs, LAMBDA a : a \notin {StandardCategories[i] : i \in 1..5})

(* BrowserHandlers.get_browser_tree *)
get_browser_tree(s, category_type) ==
    LET wanted == SelectSeq(TreeOrder,
                      LAMBDA a : category_type = "all" \/ category_type = a)
    IN Ok([type |-> category_type,
           categories |-> [i \in 1..Len(wanted) |->
                              ProcessItem(Browser[wanted[i]], CategoryName(wanted[i]))],
           available_categories |-> BrowserAttrs], s)

(* BrowserHandlers.get_browser_items_at_path *)
get_browser_items_at_path(s, path) ==
    LET path_parts == IF path = <<>> THEN <<"">> ELSE path
        root_category == Lower(path_parts[1])
    IN  IF root_category \notin {BrowserAttrs[i] : i \in 1..Len(BrowserAttrs)}
            THEN Ok([path |-> path,
                     error |-> "Unknown or unavailable category: " \o root_category,
                     available_categories |-> BrowserAttrs, items |-> <<>>], s)
        ELSE LET walk == WalkPath(Browser[root_category], path_parts, 2) IN
             IF ~walk.found
                 THEN Ok([path |-> path,
                          error |-> "Path part '" \o walk.part \o "' not found",
                          items |-> <<>>], s)
             ELSE Ok([path |-> path, name |-> walk.item.name, uri |-> walk.item.uri,
                      is_folder |-> walk.item.children # <<>>,
                      is_device |-> walk.item.is_device,
                      is_loadable |-> walk.item.is_loadable,
                      items |-> [i \in 1..Len(walk.item.children) |->
                                    [ItemInfo(walk.item.children[i]) EXCEPT
                                        !.is_folder = walk.item.children[i].children # <<>>]]], s)

-----------------------------------------------------------------------------
(* core/main.py: AbletonMCP._process_command *)

(* The command types _process_command schedules on the main thread *)
MutatingCommands ==
    {"create_midi_track", "set_track_name", "create_clip", "add_notes_to_clip",
     "set_clip_name", "set_tempo", "fire_clip", "stop_clip", "start_playback",
     "stop_playback", "load_browser_item"}

(* The command types _process_command runs on the calling thread *)
ReadOnlyCommands ==
    {"get_session_info", "get_track_info", "get_browser_item", "get_browser_tree",
     "get_browser_items_at_path"}

CommandType(command) == Get(command, "type", "")
CommandParams(command) == Get(command, "params", << >>)

(* The body of the closure main_thread_task: the handler call it makes for *)
(* the command type.  No branch leaves result = None.                       *)
MainThreadTask(command_type, params, s) ==
    CASE command_type = "create_midi_track" ->
            create_midi_track(s, Get(params, "index", DefaultIndex))
      [] command_type = "set_track_name" ->
            set_track_name(s, Get(params, "track_index", 0), Get(params, "name", ""))
      [] command_type = "create_clip" ->
            create_clip(s, Get(params, "track_index", 0), Get(params, "clip_index", 0),
                        Get(params, "length", DefaultLength))
      [] command_type = "add_notes_to_clip" ->
            add_notes_to_clip(s, Get(params, "track_index", 0),
                              Get(params, "clip_index", 0), Get(params, "notes", <<>>))
      [] command_type = "set_clip_name" ->
            set_clip_name(s, Get(params, "track_index", 0), Get(params, "clip_index", 0),
                          Get(params, "name", ""))
      [] command_type = "set_tempo" ->
            set_tempo(s, Get(params, "tempo", DefaultTempo))
      [] command_type = "fire_clip" ->
            fire_clip(s, Get(params, "track_index", 0), Get(params, "clip_index", 0))
      [] command_type = "stop_clip" ->
            stop_clip(s, Get(params, "track_index", 0), Get(params, "clip_index", 0))
      [] command_type = "start_playback" -> start_playback(s)
      [] command_type = "stop_playback" -> stop_playback(s)
      [] command_type = "load_instrument_or_effect" ->
            load_browser_item(s, Get(params, "track_index", 0), Get(params, "uri", ""))
      [] command_type = "load_browser_item" ->
            load_browser_item(s, Get(params, "track_index", 0), Get(params, "item_uri", ""))
      [] OTHER -> Ok(<< >>, s)

(* What main_thread_task puts on its response queue *)
TaskResponse(h) ==
    IF h.ok THEN [status |-> "success", result |-> h.result]
    ELSE [status |-> "error", message |-> h.message]

(* The handler call of a command that runs on the calling thread *)
ReadOnlyHandler(command_type, params, s) ==
    CASE command_type = "get_session_info" -> get_session_info(s)
      [] command_type = "get_track_info" ->
            get_track_info(s, Get(params, "track_index", 0))
      [] command_type = "get_browser_item" ->
            get_browser_item(s, Get(params, "uri", ""), Get(params, "path", <<>>))
      [] command_type = "get_browser_tree" ->
            get_browser_tree(s, Get(params, "category_type", "all"))
      [] command_type = "get_browser_items_at_path" ->
            get_browser_items_at_path(s, Get(params, "path", <<>>))

(* response = {"status": "success", "result": {}} and what the branches of *)
(* _process_command make of it                                              *)
InitialResponse == [status |-> "success", result |-> << >>]

ErrorResponse(message) ==
    [status |-> "error", result |-> << >>, message |-> message]

SuccessResponse(result) == [InitialResponse EXCEPT !.result = result]

(* The response made from what response_queue.get returned *)
ResponseOfTask(task_response) ==
    IF Get(task_response, "status", "") = "error"
        THEN ErrorResponse(Get(task_response, "message", "Unknown error"))
    ELSE SuccessResponse(Get(task_response, "result", << >>))

(* A timeout reported under a status of its own *)
TimeoutResponseBad ==
    [status |-> "timeout", result |-> << >>,
     message |-> "Timeout waiting for operation to complete"]

(* except queue.Empty *)
TimeoutResponse == ErrorResponse("Timeout waiting for operation to complete")

(* The message without the command type *)
UnknownResponseNoType(command_type) == ErrorResponse("Unknown command")

(* The else branch *)
UnknownResponse(command_type) == ErrorResponse("Unknown command: " \o command_type)

(* The response of a command that is not scheduled: a read-only command,   *)
(* whose handler exception is caught by the outer except, or an unknown one *)
SyncResponse(command_type, params, s) ==
    IF command_type \in ReadOnlyCommands
        THEN LET h == ReadOnlyHandler(command_type, params, s) IN
             IF h.ok THEN SuccessResponse(h.result) ELSE ErrorResponse(h.message)
    ELSE UnknownResponse(command_type)

-----------------------------------------------------------------------------
(* The requests the peers of the Command Server write *)

Requests ==
    {[type |-> "get_session_info"],
     [type |-> "get_track_info", params |-> [track_index |-> 5]],
     [type |-> "set_tempo", params |-> [tempo |-> 140000]],
     [type |-> "bogus"]}

(* A request as a peer may write it that does not escape what is beyond     *)
(* ASCII                                                                    *)
RawRequest ==
    <<LB, Member("type", "set_track_name"),
      RawMember("params", [track_index |-> 5, name |-> "Bässe"]), RB>>

(* The bytes the peers write: the requests as json.dumps writes them, a     *)
(* request with a multi-byte character, and a JSON value that is no object *)
RequestTexts ==
    {Encode(Dumps(r)) : r \in Requests} \cup {Encode(RawRequest), <<Digit(7)>>}

IsObjectText(text) == LoadsBytes(text).kind = "object"

(* What self.schedule_message(0, main_thread_task) does: it queues the     *)
(* callback, or it raises AssertionError                                    *)
ScheduleOutcomes == {"scheduled", "assertion"}

-----------------------------------------------------------------------------
(* core/main.py: AbletonMCP._handle_client and the main thread *)

(* No task: the response was not made from a task's result *)
NoTask == [c |-> 0, rid |-> 0]

(* buffer += data *)
AppendData(buf, data) == buf \o data

(* One response queue per connection, shared by its requests *)
QueueOfConnection(c, rid) == {r \in respQ : r.c = c}

(* The results on the response queue of request rid of connection c; the    *)
(* queue is a local of that call of _process_command                        *)
QueueOf(c, rid) == {r \in respQ : r.c = c /\ r.rid = rid}

(* while self.running: the worker blocks in recv again, or leaves the loop *)
LoopAgain == IF running THEN "recv" ELSE "exited"

(* The text that is left once the worker of c is in state w: when it has   *)
(* exited, client.close() discards what was not received and the buffer is *)
(* gone with the thread                                                     *)
Kept(w, text) == IF w = "exited" THEN <<>> ELSE text

(* client.sendall(json.dumps(response)): on a dead socket it raises, the   *)
(* error response cannot be sent either, and the worker leaves the loop     *)
Sent(c, rid, resp, of) ==
    IF peer[c] # "reset"
    THEN /\ nSent' = [nSent EXCEPT ![c] = @ + 1]
         /\ lastSent' = [lastSent EXCEPT ![c] = [rid |-> rid, resp |-> resp, of |-> of]]
         /\ wstate' = [wstate EXCEPT ![c] = LoopAgain]
    ELSE /\ UNCHANGED <<nSent, lastSent>>
         /\ wstate' = [wstate EXCEPT ![c] = "exited"]

(* The error response for a value that is no object, with the loop going on *)
NotAnObjectGoesOn(c, rid) ==
    /\ Sent(c, rid, [status |-> "error", message |-> "object has no attribute 'get'"],
            NoTask)
    /\ UNCHANGED <<song, mainQueue, respQ, lastRun>>

(* json.loads gave a value that has no get(): AttributeError, caught by the *)
(* outer except, which sends an error response and breaks                   *)
NotAnObject(c, rid) ==
    /\ IF peer[c] # "reset"
       THEN /\ nSent' = [nSent EXCEPT ![c] = @ + 1]
            /\ lastSent' = [lastSent EXCEPT ![c] =
                   [rid |-> rid, resp |-> [status |-> "error",
                                           message |-> "object has no attribute 'get'"],
                    of |-> NoTask]]
       ELSE UNCHANGED <<nSent, lastSent>>
    /\ wstate' = [wstate EXCEPT ![c] = "exited"]
    /\ UNCHANGED <<song, mainQueue, respQ, lastRun>>

(* _process_command returning as soon as the task is scheduled *)
DispatchNoWait(c, rid, command, sched) ==
    LET command_type == CommandType(command)
        params == CommandParams(command)
    IN  IF command_type \in MutatingCommands
        THEN IF sched = "scheduled"
             THEN /\ mainQueue' = Append(mainQueue,
                        [c |-> c, rid |-> rid, type |-> command_type, params |-> params])
                  /\ wstate' = [wstate EXCEPT ![c] = LoopAgain]
                  /\ UNCHANGED <<song, respQ, lastRun, nSent, lastSent>>
             ELSE LET h == MainThreadTask(command_type, params, song) IN
                  /\ song' = h.song
                  /\ lastRun' = [type |-> command_type, thread |-> "worker"]
                  /\ Sent(c, rid, ResponseOfTask(TaskResponse(h)), [c |-> c, rid |-> rid])
                  /\ UNCHANGED <<mainQueue, respQ>>
        ELSE /\ Sent(c, rid, SyncResponse(command_type, params, song), NoTask)
             /\ lastRun' = IF command_type \in ReadOnlyCommands
                           THEN [type |-> command_type, thread |-> "worker"]
                           ELSE lastRun
             /\ UNCHANGED <<song, mainQueue, respQ>>

(* self._process_command(command) and the send of its response *)
Dispatch(c, rid, command, sched) ==
    LET command_type == CommandType(command)
        params == CommandParams(command)
    IN  IF command_type \in MutatingCommands
        THEN IF sched = "scheduled"
             THEN /\ mainQueue' = Append(mainQueue,
                        [c |-> c, rid |-> rid, type |-> command_type, params |-> params])
                  /\ wstate' = [wstate EXCEPT ![c] = "wait"]
                  /\ UNCHANGED <<song, respQ, lastRun, nSent, lastSent>>
             ELSE LET h == MainThreadTask(command_type, params, song) IN
                  /\ song' = h.song
                  /\ lastRun' = [type |-> command_type, thread |-> "worker"]
                  /\ Sent(c, rid, ResponseOfTask(TaskResponse(h)), [c |-> c, rid |-> rid])
                  /\ UNCHANGED <<mainQueue, respQ>>
        ELSE /\ Sent(c, rid, SyncResponse(command_type, params, song), NoTask)
             /\ lastRun' = IF command_type \in ReadOnlyCommands
                           THEN [type |-> command_type, thread |-> "worker"]
                           ELSE lastRun
             /\ UNCHANGED <<song, mainQueue, respQ>>

(* except Exception of _handle_client for the UnicodeDecodeError of         *)
(* data.decode("utf-8"): the error response is sent, and as the exception *)
(* is a ValueError the loop goes on; the data received is in no buffer      *)
DecodeErrorResponse == [status |-> "error", message |-> "'utf-8' codec can't decode"]

Undecodable(c) ==
    /\ stray' = [stray EXCEPT ![c] = @ + 1]
    /\ wstate' = [wstate EXCEPT ![c] = LoopAgain]
    /\ UNCHANGED <<song, mainQueue, respQ, lastRun, nSent, lastSent, nParsed, lastParsed>>

(* One iteration of the loop of _handle_client in which recv returns data *)
WorkerReceive(c) ==
    /\ wstate[c] = "recv"
    /\ peer[c] # "reset"
    /\ inbox[c] # <<>>
    /\ \E n \in 1..Len(inbox[c]), sched \in ScheduleOutcomes :
        LET data == SubSeq(inbox[c], 1, n)
            decoded == Decode(data)
            buf == IF decoded.ok THEN AppendData(buffer[c], decoded.text) ELSE buffer[c]
            command == IF decoded.ok THEN Loads(buf) ELSE [kind |-> "invalid"]
        IN  /\ IF ~decoded.ok
               THEN Undecodable(c)
               ELSE IF command.kind = "invalid"
               THEN /\ wstate' = [wstate EXCEPT ![c] = LoopAgain]
                    /\ UNCHANGED <<song, mainQueue, respQ, lastRun, nSent, lastSent,
                                   nParsed, lastParsed, stray>>
               ELSE /\ nParsed' = [nParsed EXCEPT ![c] = @ + 1]
                    /\ lastParsed' = [lastParsed EXCEPT ![c] = command]
                    /\ UNCHANGED stray
                    /\ IF command.kind # "object"
                       THEN NotAnObject(c, nParsed[c] + 1)
                       ELSE Dispatch(c, nParsed[c] + 1, command.value, sched)
            /\ inbox' = [inbox EXCEPT ![c] =
                    Kept(wstate'[c], SubSeq(@, n + 1, Len(@)))]
            /\ buffer' = [buffer EXCEPT ![c] =
                    Kept(wstate'[c], IF command.kind = "invalid" THEN buf ELSE <<>>)]
    /\ UNCHANGED <<running, listening, peer, nWritten, lastWritten, framed>>
    /\ UNCHANGED <<cliVars, accVars, hostVars, toolVars, lifeVars>>

(* recv returns no data: the peer closed the connection *)
WorkerPeerClosed(c) ==
    /\ wstate[c] = "recv"
    /\ peer[c] = "closed"
    /\ inbox[c] = <<>>
    /\ wstate' = [wstate EXCEPT ![c] = "exited"]
    /\ inbox' = [inbox EXCEPT ![c] = Kept(wstate'[c], @)]
    /\ buffer' = [buffer EXCEPT ![c] = Kept(wstate'[c], @)]
    /\ UNCHANGED <<running, listening, song, peer, mainQueue, respQ,
                   lastRun, nWritten, lastWritten, framed, nParsed, lastParsed,
                   nSent, lastSent>>
    /\ UNCHANGED <<stray, cliVars, accVars, hostVars, toolVars, lifeVars>>

(* recv raises on a dead socket; the error response cannot be sent *)
WorkerRecvError(c) ==
    /\ wstate[c] = "recv"
    /\ peer[c] = "reset"
    /\ wstate' = [wstate EXCEPT ![c] = "exited"]
    /\ inbox' = [inbox EXCEPT ![c] = Kept(wstate'[c], @)]
    /\ buffer' = [buffer EXCEPT ![c] = Kept(wstate'[c], @)]
    /\ UNCHANGED <<running, listening, song, peer, mainQueue, respQ,
                   lastRun, nWritten, lastWritten, framed, nParsed, lastParsed,
                   nSent, lastSent>>
    /\ UNCHANGED <<stray, cliVars, accVars, hostVars, toolVars, lifeVars>>

(* response_queue.get(timeout=10.0) returns the task's response *)
WorkerGetResult(c) ==
    /\ wstate[c] = "wait"
    /\ \E r \in QueueOf(c, nParsed[c]) :
        /\ respQ' = respQ \ {r}
        /\ Sent(c, nParsed[c], ResponseOfTask(r.resp), [c |-> r.c, rid |-> r.rid])
    /\ inbox' = [inbox EXCEPT ![c] = Kept(wstate'[c], @)]
    /\ buffer' = [buffer EXCEPT ![c] = Kept(wstate'[c], @)]
    /\ UNCHANGED <<running, listening, song, peer, mainQueue, lastRun,
                   nWritten, lastWritten, framed, nParsed, lastParsed>>
    /\ UNCHANGED <<stray, cliVars, accVars, hostVars, toolVars, lifeVars>>

(* A timeout after which the worker goes on without a response *)
WorkerTimeoutSilent(c) ==
    /\ wstate[c] = "wait"
    /\ QueueOf(c, nParsed[c]) = {}
    /\ wstate' = [wstate EXCEPT ![c] = LoopAgain]
    /\ inbox' = [inbox EXCEPT ![c] = Kept(wstate'[c], @)]
    /\ buffer' = [buffer EXCEPT ![c] = Kept(wstate'[c], @)]
    /\ UNCHANGED <<running, listening, song, peer, mainQueue, respQ, lastRun, nWritten,
                   lastWritten, framed, nParsed, lastParsed, nSent, lastSent>>
    /\ UNCHANGED <<stray, cliVars, accVars, hostVars, toolVars, lifeVars>>

(* response_queue.get(timeout=10.0) raises queue.Empty *)
WorkerTimeout(c) ==
    /\ wstate[c] = "wait"
    /\ QueueOf(c, nParsed[c]) = {}
    /\ Sent(c, nParsed[c], TimeoutResponse, NoTask)
    /\ inbox' = [inbox EXCEPT ![c] = Kept(wstate'[c], @)]
    /\ buffer' = [buffer EXCEPT ![c] = Kept(wstate'[c], @)]
    /\ UNCHANGED <<running, listening, song, peer, mainQueue, respQ,
                   lastRun, nWritten, lastWritten, framed, nParsed, lastParsed>>
    /\ UNCHANGED <<stray, cliVars, accVars, hostVars, toolVars, lifeVars>>

(* The host's main thread runs the callback at the head of its queue *)
MainThreadRun ==
    /\ mainQueue # <<>>
    /\ LET task == Head(mainQueue)
           h == MainThreadTask(task.type, task.params, song)
       IN  /\ song' = h.song
           /\ respQ' = respQ \cup {[c |-> task.c, rid |-> task.rid, resp |-> TaskResponse(h)]}
           /\ lastRun' = [type |-> task.type, thread |-> "main"]
    /\ mainQueue' = Tail(mainQueue)
    /\ UNCHANGED <<running, listening, wstate, buffer, inbox, peer, nWritten,
                   lastWritten, framed, nParsed, lastParsed, nSent, lastSent>>
    /\ UNCHANGED <<stray, cliVars, accVars, hostVars, toolVars, lifeVars>>

(* _server_thread accepts a connection and starts its worker thread *)
Accept(c) ==
    /\ running
    /\ listening
    /\ wstate[c] = "unborn"
    /\ \A d \in Conns : d < c => wstate[d] # "unborn"
    /\ wstate' = [wstate EXCEPT ![c] = "recv"]
    /\ accepted' = accepted \cup {c}
    /\ spawned' = [spawned EXCEPT ![c] = @ + 1]
    /\ UNCHANGED <<running, listening, song, buffer, inbox, peer, mainQueue, respQ,
                   lastRun, nWritten, lastWritten, framed, nParsed, lastParsed,
                   nSent, lastSent>>
    /\ UNCHANGED <<stray, cliVars, accVars, hostVars, toolVars, impl, handler, apc, dpc>>

(* AbletonMCP.disconnect *)
Disconnect ==
    /\ running
    /\ running' = FALSE
    /\ listening' = FALSE
    /\ dpc' = "done"
    /\ UNCHANGED <<song, wstate, buffer, inbox, peer, mainQueue, respQ, lastRun,
                   nWritten, lastWritten, framed, nParsed, lastParsed, nSent,
                   lastSent>>
    /\ UNCHANGED <<stray, cliVars, accVars, hostVars, toolVars, impl, handler, apc, accepted,
                   spawned>>

-----------------------------------------------------------------------------
(* The peers of the Command Server *)

RECURSIVE SumOver(_, _)
SumOver(f, S) ==
    IF S = {} THEN 0
    ELSE LET x == CHOOSE y \in S : TRUE IN f[x] + SumOver(f, S \ {x})

(* The peer writes the text of one request *)
PeerSend(c, text) ==
    /\ wstate[c] \in {"recv", "wait"}
    /\ peer[c] = "open"
    /\ SumOver(nWritten, Conns) < MaxReqs
    /\ inbox' = [inbox EXCEPT ![c] = @ \o text]
    /\ nWritten' = [nWritten EXCEPT ![c] = @ + 1]
    /\ lastWritten' = [lastWritten EXCEPT ![c] = text]
    /\ framed' = [framed EXCEPT ![c] =
            /\ @
            /\ IsObjectText(text)
            /\ wstate[c] = "recv" /\ inbox[c] = <<>> /\ buffer[c] = <<>>
            /\ nSent[c] = nWritten[c]]
    /\ UNCHANGED <<running, listening, song, wstate, buffer, peer, mainQueue, respQ,
                   lastRun, nParsed, lastParsed, nSent, lastSent>>
    /\ UNCHANGED <<stray, cliVars, accVars, hostVars, toolVars, lifeVars>>

(* The peer closes its end *)
PeerClose(c) ==
    /\ wstate[c] \in {"recv", "wait"}
    /\ peer[c] = "open"
    /\ Cardinality({d \in Conns : peer[d] # "open"}) < MaxFaults
    /\ peer' = [peer EXCEPT ![c] = "closed"]
    /\ UNCHANGED <<running, listening, song, wstate, buffer, inbox, mainQueue, respQ,
                   lastRun, nWritten, lastWritten, framed, nParsed, lastParsed,
                   nSent, lastSent>>
    /\ UNCHANGED <<stray, cliVars, accVars, hostVars, toolVars, lifeVars>>

(* The connection is reset: the socket is dead for the worker *)
PeerReset(c) ==
    /\ wstate[c] \in {"recv", "wait"}
    /\ peer[c] = "open"
    /\ Cardinality({d \in Conns : peer[d] # "open"}) < MaxFaults
    /\ peer' = [peer EXCEPT ![c] = "reset"]
    /\ UNCHANGED <<running, listening, song, wstate, buffer, inbox, mainQueue, respQ,
                   lastRun, nWritten, lastWritten, framed, nParsed, lastParsed,
                   nSent, lastSent>>
    /\ UNCHANGED <<stray, cliVars, accVars, hostVars, toolVars, lifeVars>>

-----------------------------------------------------------------------------
(* The accept loop and the shutdown, step by step: AbletonMCP._server_thread *)
(* with AbletonMCP.disconnect, and SocketServer._server_thread with          *)
(* SocketServer.stop. Accept and Disconnect above are these steps taken at   *)
(* once.                                                                     *)

(* The two classes that listen *)
Implementations == {"AbletonMCP", "SocketServer"}

(* Whether the accept loop has a target for the worker thread: in          *)
(* AbletonMCP it is the method _handle_client; in SocketServer it is        *)
(* client_handler, which is None until set_client_handler is called         *)
HasHandler == impl = "AbletonMCP" \/ handler

(* A join that waits for the workers, as disconnect() does not *)
JoinReturnsAfterWorkers ==
    /\ apc = "returned"
    /\ \A c \in Conns : wstate[c] \in {"unborn", "exited"}

(* server_thread.join(1.0) returns: the thread has ended or a second has    *)
(* passed. The loop over client_threads that follows only logs.             *)
JoinReturns == \E expired \in BOOLEAN : expired \/ apc = "returned"

(* while self.running: (SocketServer: while self.running and self.server,  *)
(* and stop() leaves self.server set)                                       *)
ServerThreadTest ==
    /\ apc = "test"
    /\ apc' = IF running THEN "accept" ELSE "returned"
    /\ UNCHANGED <<srvVars, cliVars, accVars, hostVars, toolVars, impl, handler, dpc, accepted,
                   spawned>>

(* self.server.accept() returns a connection; the worker thread is started *)
(* for it                                                                   *)
AcceptConnection(c) ==
    /\ apc = "accept"
    /\ listening
    /\ c \notin accepted
    /\ \A d \in Conns : d < c => d \in accepted
    /\ accepted' = accepted \cup {c}
    /\ IF HasHandler
       THEN /\ spawned' = [spawned EXCEPT ![c] = @ + 1]
            /\ wstate' = [wstate EXCEPT ![c] = LoopAgain]
       ELSE UNCHANGED <<spawned, wstate>>
    /\ apc' = "test"
    /\ UNCHANGED <<running, listening, song, buffer, inbox, peer, mainQueue, respQ,
                   lastRun, nWritten, lastWritten, framed, nParsed, lastParsed,
                   nSent, lastSent>>
    /\ UNCHANGED <<stray, cliVars, accVars, hostVars, toolVars, impl, handler, dpc>>

(* self.server.accept() raises: socket.timeout after a second, or an error *)
(* on the closed listener                                                   *)
AcceptRaises ==
    /\ apc = "accept"
    /\ apc' = "test"
    /\ UNCHANGED <<srvVars, cliVars, accVars, hostVars, toolVars, impl, handler, dpc, accepted,
                   spawned>>

(* disconnect() / stop(), one statement at a time: the flag, the listener, *)
(* the join of the server thread                                            *)
DisconnectStep ==
    /\ CASE dpc = "idle" ->
                /\ running' = FALSE
                /\ dpc' = "flag"
                /\ UNCHANGED listening
         [] dpc = "flag" ->
                /\ listening' = FALSE
                /\ dpc' = "closed"
                /\ UNCHANGED running
         [] dpc = "closed" ->
                /\ JoinReturns
                /\ dpc' = "done"
                /\ UNCHANGED <<running, listening>>
         [] OTHER -> FALSE
    /\ UNCHANGED <<song, wstate, buffer, inbox, peer, mainQueue, respQ, lastRun,
                   nWritten, lastWritten, framed, nParsed, lastParsed, nSent,
                   lastSent>>
    /\ UNCHANGED <<stray, cliVars, accVars, hostVars, toolVars, impl, handler, apc, accepted,
                   spawned>>

(* The steps of the worker thread of connection c *)
WorkerStep(c) ==
    \/ WorkerReceive(c)
    \/ WorkerPeerClosed(c)
    \/ WorkerRecvError(c)
    \/ WorkerGetResult(c)
    \/ WorkerTimeout(c)

(* What the peers write in the runs of the accept loop *)
LifecycleTexts ==
    {Encode(Dumps([type |-> "set_tempo", params |-> [tempo |-> 140000]]))}

-----------------------------------------------------------------------------
(* MCP_Server/core/connection.py: AbletonConnection *)

(* command = {"type": command_type, "params": params or {}} *)
Command(command_type, params) == [type |-> command_type, params |-> params]

(* The calls of send_command: a read, a write the host accepts, a write the *)
(* handler rejects, and a command type the Command Server does not know     *)
ClientCalls ==
    {Command("get_session_info", << >>),
     Command("set_tempo", [tempo |-> 140000]),
     Command("set_tempo", [tempo |-> 10000]),
     Command("bogus", << >>)}

(* What self.sock.sendall does on a live socket: it writes the text, or it  *)
(* runs into the timeout an earlier call set on the socket                  *)
SendOutcomes == {"sent", "timeout"}

(* What the Command Server makes of a command it received whole: the        *)
(* response it sends and the song it leaves.  A scheduled command is        *)
(* answered with its task's result, or with the timeout response while the *)
(* task runs all the same.                                                  *)
ServerAnswers(command, s) ==
    LET command_type == CommandType(command)
        params == CommandParams(command)
    IN  IF command_type \in MutatingCommands
        THEN LET h == MainThreadTask(command_type, params, s) IN
             {[resp |-> ResponseOfTask(TaskResponse(h)), song |-> h.song],
              [resp |-> TimeoutResponse, song |-> h.song]}
        ELSE {[resp |-> SyncResponse(command_type, params, s), song |-> s]}

(* How a call of send_command ends *)
NoOutcome == [kind |-> "none", used |-> 0]
Returned(result, s) == [kind |-> "returned", value |-> result, used |-> s]
Raised(message, branch, origin, s) ==
    [kind |-> "raised", message |-> message, branch |-> branch, origin |-> origin,
     used |-> s]

(* The last except branch, except Exception, leaving the handle as it is *)
ExceptSockKeptOnException(branch, s) == IF branch = "exception" THEN s ELSE 0

(* An except branch that leaves the handle as it is *)
ExceptSockKept(branch, s) == s

(* self.sock = None, the first statement after the log in each of the four *)
(* except branches of send_command                                          *)
ExceptSock(branch, s) == 0

(* An except branch of send_command, entered while the call uses socket s: *)
(* the handle is set as the branch sets it and the call raises              *)
Fails(s, branch, origin, message) ==
    /\ sock' = ExceptSock(branch, s)
    /\ failed' = failed \cup {s}
    /\ lastOutcome' = Raised(message, branch, origin, s)
    /\ nOutcomes' = nOutcomes + 1
    /\ cpc' = "idle"
    /\ ccmd' = << >>
    /\ rchunks' = <<>>

(* send_command once receive_full_response has returned data: the response *)
(* is parsed; an error envelope is raised as an Exception inside the try,   *)
(* where the last except branch catches it; any other envelope returns its *)
(* result                                                                   *)
Completes(s, data) ==
    LET response == LoadsBytes(data) IN
    IF response.kind # "object"
    THEN Fails(s, "exception", "response",
               "Communication error with Ableton: object has no attribute 'get'")
    ELSE IF Get(response.value, "status", "") = "error"
    THEN Fails(s, "exception", "envelope",
               "Communication error with Ableton: "
               \o Get(response.value, "message", "Unknown error from Ableton"))
    ELSE /\ lastOutcome' = Returned(Get(response.value, "result", << >>), s)
         /\ nOutcomes' = nOutcomes + 1
         /\ cpc' = "idle"
         /\ ccmd' = << >>
         /\ rchunks' = <<>>
         /\ UNCHANGED <<sock, failed>>

(* The Exception that send_command makes of a UnicodeDecodeError            *)
CannotDecode(s) ==
    Fails(s, "exception", "receive",
          "Communication error with Ableton: 'utf-8' codec can't decode")

(* After the loop, the chunks handed back as they are *)
AfterLoopUnparsed(s) ==
    IF rchunks # <<>>
    THEN Completes(s, rchunks)
    ELSE Fails(s, "exception", "receive",
               "Communication error with Ableton: No data received")

(* receive_full_response after its loop: the chunks are parsed once more    *)
AfterLoop(s) ==
    IF rchunks # <<>>
    THEN IF LoadsBytes(rchunks).kind = "undecodable"
         THEN CannotDecode(s)
         ELSE IF LoadsBytes(rchunks).kind # "invalid"
         THEN Completes(s, rchunks)
         ELSE Fails(s, "exception", "receive",
                    "Communication error with Ableton: Incomplete JSON response received")
    ELSE Fails(s, "exception", "receive",
               "Communication error with Ableton: No data received")

(* is_modifying_command = command_type in [...] *)
is_modifying_command(command_type) ==
    command_type \in
        {"create_midi_track", "create_audio_track", "set_track_name", "create_clip",
         "add_notes_to_clip", "set_clip_name", "set_tempo", "fire_clip", "stop_clip",
         "set_device_parameter", "start_playback", "stop_playback",
         "load_instrument_or_effect"}

(* time.sleep(0.1) after the send and after the response of a modifying    *)
(* command, in milliseconds                                                 *)
SendDelay(command_type) == IF is_modifying_command(command_type) THEN 100 ELSE 0

(* timeout = 15.0 if is_modifying_command else 10.0, in seconds *)
SendTimeout(command_type) == IF is_modifying_command(command_type) THEN 15 ELSE 10

(* send_command up to its call of receive_full_response: connect() when     *)
(* there is no handle, then one sendall of the command                      *)
SendCommand(command, reachable, io) ==
    /\ cpc = "idle"
    /\ nCalls < MaxCalls
    /\ (sock = 0 /\ reachable) => opened < MaxCalls
    /\ nCalls' = nCalls + 1
    /\ IF sock = 0 /\ ~reachable
       THEN /\ lastOutcome' = Raised("Not connected to Ableton", "none", "connect", 0)
            /\ nOutcomes' = nOutcomes + 1
            /\ callWrites' = 0
            /\ UNCHANGED <<sock, opened, link, pending, cpc, ccmd, rchunks, writes, failed>>
       ELSE LET s == IF sock = 0 THEN opened + 1 ELSE sock
                l == IF sock = 0 THEN "open" ELSE link[s]
            IN  /\ opened' = IF sock = 0 THEN opened + 1 ELSE opened
                /\ link' = [link EXCEPT ![s] = l]
                /\ IF l = "reset"
                   THEN /\ Fails(s, "connection", "send", "Connection to Ableton lost")
                        /\ callWrites' = 0
                        /\ UNCHANGED <<pending, writes>>
                   ELSE IF io = "timeout" /\ writes[s] > 0
                   THEN /\ Fails(s, "timeout", "send", "Timeout waiting for Ableton response")
                        /\ callWrites' = 0
                        /\ UNCHANGED <<pending, writes>>
                   ELSE /\ sock' = s
                        /\ pending' = [pending EXCEPT ![s] =
                                IF l = "open" THEN Append(@, command) ELSE @]
                        /\ writes' = [writes EXCEPT ![s] = @ + 1]
                        /\ callWrites' = 1
                        /\ cpc' = "receiving"
                        /\ ccmd' = command
                        /\ rchunks' = <<>>
                        /\ UNCHANGED <<failed, lastOutcome, nOutcomes>>
    /\ UNCHANGED rx
    /\ UNCHANGED <<srvVars, accVars, hostVars, toolVars, lifeVars>>

(* receive_full_response: recv returns a chunk; the chunks so far are       *)
(* joined, decoded and parsed                                               *)
ReceiveChunk ==
    /\ cpc = "receiving"
    /\ link[sock] # "reset"
    /\ rx[sock] # <<>>
    /\ \E n \in 1..Len(rx[sock]) :
        LET data == rchunks \o SubSeq(rx[sock], 1, n) IN
        /\ rx' = [rx EXCEPT ![sock] = SubSeq(@, n + 1, Len(@))]
        /\ IF LoadsBytes(data).kind = "undecodable"
           THEN CannotDecode(sock)
           ELSE IF LoadsBytes(data).kind # "invalid"
           THEN Completes(sock, data)
           ELSE /\ rchunks' = data
                /\ UNCHANGED <<sock, failed, lastOutcome, nOutcomes, cpc, ccmd>>
    /\ UNCHANGED <<opened, link, pending, nCalls, writes, callWrites>>
    /\ UNCHANGED <<srvVars, accVars, hostVars, toolVars, lifeVars>>

(* receive_full_response: recv returns no data, the server closed           *)
ReceiveClosed ==
    /\ cpc = "receiving"
    /\ link[sock] = "closed"
    /\ rx[sock] = <<>>
    /\ IF rchunks = <<>>
       THEN Fails(sock, "exception", "receive",
                  "Communication error with Ableton: Connection closed before receiving any data")
       ELSE AfterLoop(sock)
    /\ UNCHANGED <<opened, link, rx, pending, nCalls, writes, callWrites>>
    /\ UNCHANGED <<srvVars, accVars, hostVars, toolVars, lifeVars>>

(* The timeout retried: a new socket, and the command written once more     *)
ReceiveTimeoutRetry ==
    /\ cpc = "receiving"
    /\ link[sock] = "open"
    /\ rx[sock] = <<>>
    /\ opened < MaxCalls
    /\ opened' = opened + 1
    /\ sock' = opened + 1
    /\ link' = [link EXCEPT ![opened + 1] = "open"]
    /\ pending' = [pending EXCEPT ![opened + 1] = Append(@, ccmd)]
    /\ writes' = [writes EXCEPT ![opened + 1] = @ + 1]
    /\ callWrites' = callWrites + 1
    /\ UNCHANGED <<rx, cpc, ccmd, rchunks, nCalls, nOutcomes, lastOutcome, failed>>
    /\ UNCHANGED <<srvVars, accVars, hostVars, toolVars, lifeVars>>

(* receive_full_response: recv raises TimeoutError and the loop is left     *)
ReceiveTimeout ==
    /\ cpc = "receiving"
    /\ link[sock] = "open"
    /\ rx[sock] = <<>>
    /\ AfterLoop(sock)
    /\ UNCHANGED <<opened, link, rx, pending, nCalls, writes, callWrites>>
    /\ UNCHANGED <<srvVars, accVars, hostVars, toolVars, lifeVars>>

(* receive_full_response: recv raises ConnectionResetError, which is        *)
(* raised again and caught by send_command                                  *)
ReceiveReset ==
    /\ cpc = "receiving"
    /\ link[sock] = "reset"
    /\ Fails(sock, "connection", "receive", "Connection to Ableton lost")
    /\ UNCHANGED <<opened, link, rx, pending, nCalls, writes, callWrites>>
    /\ UNCHANGED <<srvVars, accVars, hostVars, toolVars, lifeVars>>

-----------------------------------------------------------------------------
(* The Command Server as the Connection Client meets it *)

srvRest == <<running, listening, wstate, buffer, inbox, peer, mainQueue, respQ,
             lastRun, nWritten, lastWritten, framed, nParsed, lastParsed, nSent, lastSent, stray>>

(* The worker of the connection answers the command it received first.  A  *)
(* socket the client holds no more is closed when it is collected, and     *)
(* what arrives for it is discarded.                                        *)
ServerRespond(s) ==
    /\ link[s] = "open"
    /\ pending[s] # <<>>
    /\ \E a \in ServerAnswers(Head(pending[s]), song) :
        /\ rx' = [rx EXCEPT ![s] = IF s = sock THEN @ \o Encode(Dumps(a.resp)) ELSE <<>>]
        /\ song' = a.song
    /\ pending' = [pending EXCEPT ![s] = Tail(@)]
    /\ UNCHANGED <<sock, opened, link, cpc, ccmd, rchunks, nCalls, nOutcomes,
                   lastOutcome, writes, callWrites, failed>>
    /\ UNCHANGED <<srvRest, accVars, hostVars, toolVars, lifeVars>>

(* The connection the client holds breaks while the worker sends: a part   *)
(* of the response arrives, and then the end of the stream                  *)
ServerBreaksOff(s) ==
    /\ s = sock
    /\ link[s] = "open"
    /\ pending[s] # <<>>
    /\ \E a \in ServerAnswers(Head(pending[s]), song) :
        \E n \in 1..(Len(Encode(Dumps(a.resp))) - 1) :
            /\ rx' = [rx EXCEPT ![s] = @ \o SubSeq(Encode(Dumps(a.resp)), 1, n)]
            /\ song' = a.song
    /\ pending' = [pending EXCEPT ![s] = <<>>]
    /\ link' = [link EXCEPT ![s] = "closed"]
    /\ UNCHANGED <<sock, opened, cpc, ccmd, rchunks, nCalls, nOutcomes,
                   lastOutcome, writes, callWrites, failed>>
    /\ UNCHANGED <<srvRest, accVars, hostVars, toolVars, lifeVars>>

(* The worker of the connection the client holds leaves its loop and       *)
(* closes the socket                                                        *)
ServerClose(s) ==
    /\ s = sock
    /\ link[s] = "open"
    /\ link' = [link EXCEPT ![s] = "closed"]
    /\ pending' = [pending EXCEPT ![s] = <<>>]
    /\ UNCHANGED <<sock, opened, rx, cpc, ccmd, rchunks, nCalls, nOutcomes,
                   lastOutcome, writes, callWrites, failed>>
    /\ UNCHANGED <<srvVars, accVars, hostVars, toolVars, lifeVars>>

(* The connection the client holds is reset; what was on its way is lost   *)
ServerReset(s) ==
    /\ s = sock
    /\ link[s] = "open"
    /\ link' = [link EXCEPT ![s] = "reset"]
    /\ pending' = [pending EXCEPT ![s] = <<>>]
    /\ rx' = [rx EXCEPT ![s] = <<>>]
    /\ UNCHANGED <<sock, opened, cpc, ccmd, rchunks, nCalls, nOutcomes,
                   lastOutcome, writes, callWrites, failed>>
    /\ UNCHANGED <<srvVars, accVars, hostVars, toolVars, lifeVars>>

-----------------------------------------------------------------------------
(* MCP_Server/core/connection.py: connect(), disconnect() and the           *)
(* process-wide connection                                                  *)

(* A socket of the Connection Client is open until close() is called on it *)
(* or an except branch of send_command lets go of it; a socket object      *)
(* nothing refers to is closed by the runtime.                             *)
ClientOpen(s) ==
    /\ s \in 1..opened
    /\ s \notin closedByClient
    /\ s \notin failed

OpenSockets == {s \in Sockets : ClientOpen(s)}

(* connect() that opens a socket whether or not one is held *)
connectAlways(handle, n, reachable) ==
    IF reachable
    THEN [ret |-> TRUE, sock |-> n + 1, opened |-> n + 1]
    ELSE [ret |-> FALSE, sock |-> 0, opened |-> n]

(* connect() on a connection whose handle is handle, after n sockets were  *)
(* connected: what it returns, the handle and the sockets connected after  *)
connect(handle, n, reachable) ==
    IF handle # 0
    THEN [ret |-> TRUE, sock |-> handle, opened |-> n]
    ELSE IF reachable
    THEN [ret |-> TRUE, sock |-> n + 1, opened |-> n + 1]
    ELSE [ret |-> FALSE, sock |-> 0, opened |-> n]

(* disconnect(): close() on the socket held, if one is, and the handle unset *)
disconnect(handle, closed) ==
    [sock |-> 0, closed |-> IF handle # 0 THEN closed \cup {handle} ELSE closed]

NoConnect == [ret |-> FALSE, before |-> 0, after |-> 0, openedBefore |-> 0,
              openedAfter |-> 0, called |-> FALSE]

ConnectCalled(r, handle, n) ==
    [ret |-> r.ret, before |-> handle, after |-> r.sock, openedBefore |-> n,
     openedAfter |-> r.opened, called |-> TRUE]

(* A call of connect() on the connection *)
Connect(reachable) ==
    /\ cpc = "idle"
    /\ reachable => opened < MaxCalls
    /\ LET r == connect(sock, opened, reachable) IN
        /\ sock' = r.sock
        /\ opened' = r.opened
        /\ link' = IF r.opened > opened THEN [link EXCEPT ![r.opened] = "open"] ELSE link
        /\ cret' = ConnectCalled(r, sock, opened)
    /\ UNCHANGED <<rx, pending, cpc, ccmd, rchunks, nCalls, nOutcomes, lastOutcome,
                   writes, callWrites, failed>>
    /\ UNCHANGED <<conn, gpc, attempt, mark, tcmd, gSocks, gOutcome, probed,
                   closedByClient>>
    /\ UNCHANGED <<srvVars, hostVars, toolVars, lifeVars>>

(* A call of disconnect() on the connection *)
ConnectionDisconnect ==
    /\ cpc = "idle"
    /\ sock # 0
    /\ LET d == disconnect(sock, closedByClient) IN
        /\ sock' = d.sock
        /\ closedByClient' = d.closed
    /\ UNCHANGED <<opened, link, rx, pending, cpc, ccmd, rchunks, nCalls, nOutcomes,
                   lastOutcome, writes, callWrites, failed>>
    /\ UNCHANGED <<conn, gpc, attempt, mark, tcmd, gSocks, gOutcome, probed, cret>>
    /\ UNCHANGED <<srvVars, hostVars, toolVars, lifeVars>>

-----------------------------------------------------------------------------
(* get_ableton_connection and the tool functions that call it *)

(* max_attempts = 3 *)
MaxAttempts == 3

(* _ableton_connection.send_command("get_session_info") *)
ProbeCommand == Command("get_session_info", << >>)

(* How a call of get_ableton_connection ends *)
NoAccess == [kind |-> "none"]
Reused(s, l) == [kind |-> "reused", sock |-> s, link |-> l]
Created(s, n) == [kind |-> "created", sock |-> s, attempts |-> n]
GaveUp(n, c, open) == [kind |-> "raised", attempts |-> n, conn |-> c, open |-> open]

(* The liveness check: sock.settimeout(1.0) raises when the handle is None, *)
(* sock.sendall(b"") when the connection was reset.  A send of no bytes on  *)
(* a connection the server has closed returns as on an open one.            *)
PingFails(handle) == handle = 0 \/ link[handle] = "reset"

(* The probe counted as passed whatever send_command did *)
ProbeSucceededAlways(o) == TRUE

(* The probe has passed when send_command returned and did not raise *)
ProbeSucceeded(o) == o.kind = "returned"

(* The end of one pass of the for loop that did not return: the next pass, *)
(* or after the last the Exception, with the connection c and the sockets  *)
(* closed that the pass leaves                                              *)
NextAttempt(c, closed) ==
    IF attempt < MaxAttempts
    THEN /\ attempt' = attempt + 1
         /\ gpc' = "attempt"
         /\ UNCHANGED gOutcome
    ELSE /\ attempt' = 0
         /\ gpc' = "idle"
         /\ gOutcome' = GaveUp(attempt, c,
                               {s \in gSocks : s \notin closed /\ s \notin failed})

(* A tool function calls get_ableton_connection: the connection held is    *)
(* returned when the liveness check passes; else it is disconnected and    *)
(* let go of, and the loop of attempts begins                               *)
get_ableton_connection(command) ==
    /\ gpc = "idle"
    /\ cpc = "idle"
    /\ tcmd' = command
    /\ IF conn /\ ~PingFails(sock)
       THEN /\ gOutcome' = Reused(sock, link[sock])
            /\ gpc' = "send"
            /\ mark' = nOutcomes
            /\ UNCHANGED <<conn, sock, attempt, gSocks, closedByClient>>
       ELSE LET d == disconnect(sock, closedByClient) IN
            /\ conn' = FALSE
            /\ sock' = d.sock
            /\ closedByClient' = d.closed
            /\ gpc' = "attempt"
            /\ attempt' = 1
            /\ gSocks' = {}
            /\ gOutcome' = NoAccess
            /\ UNCHANGED mark
    /\ UNCHANGED <<probed, cret>>
    /\ UNCHANGED <<opened, link, rx, pending, cpc, ccmd, rchunks, nCalls, nOutcomes,
                   lastOutcome, writes, callWrites, failed>>
    /\ UNCHANGED <<srvVars, hostVars, lifeVars>>

(* A call of get_ableton_connection for a call of send_command(command) *)
GetAbletonConnection(command) ==
    /\ get_ableton_connection(command)
    /\ UNCHANGED toolVars

(* One pass of the loop up to the probe: a new AbletonConnection, and      *)
(* connect() on it                                                          *)
Attempt(reachable) ==
    /\ gpc = "attempt"
    /\ reachable => opened < MaxCalls
    /\ LET r == connect(0, opened, reachable) IN
        /\ opened' = r.opened
        /\ link' = IF r.opened > opened THEN [link EXCEPT ![r.opened] = "open"] ELSE link
        /\ cret' = ConnectCalled(r, 0, opened)
        /\ sock' = r.sock
        /\ IF r.ret
           THEN /\ conn' = TRUE
                /\ gSocks' = gSocks \cup {r.sock}
                /\ gpc' = "probe"
                /\ mark' = nOutcomes
                /\ UNCHANGED <<attempt, gOutcome>>
           ELSE /\ conn' = FALSE
                /\ NextAttempt(FALSE, closedByClient)
                /\ UNCHANGED <<gSocks, mark>>
    /\ UNCHANGED <<tcmd, probed, closedByClient>>
    /\ UNCHANGED <<rx, pending, cpc, ccmd, rchunks, nCalls, nOutcomes, lastOutcome,
                   writes, callWrites, failed>>
    /\ UNCHANGED <<srvVars, hostVars, toolVars, lifeVars>>

(* The probe: send_command("get_session_info") on the new connection *)
ProbeSend(io) ==
    /\ gpc = "probe"
    /\ nOutcomes = mark
    /\ SendCommand(ProbeCommand, FALSE, io)

(* The probe has returned or raised: the connection is returned, or it is  *)
(* disconnected and let go of                                               *)
ProbeDone ==
    /\ gpc = "probe"
    /\ cpc = "idle"
    /\ nOutcomes > mark
    /\ probed' = IF lastOutcome.kind = "returned"
                 THEN probed \cup {lastOutcome.used} ELSE probed
    /\ IF ProbeSucceeded(lastOutcome)
       THEN /\ gOutcome' = Created(sock, attempt)
            /\ gpc' = "send"
            /\ mark' = nOutcomes
            /\ attempt' = 0
            /\ UNCHANGED <<conn, sock, closedByClient>>
       ELSE LET d == disconnect(sock, closedByClient) IN
            /\ sock' = d.sock
            /\ closedByClient' = d.closed
            /\ conn' = FALSE
            /\ NextAttempt(FALSE, d.closed)
            /\ UNCHANGED mark
    /\ UNCHANGED <<tcmd, gSocks, cret>>
    /\ UNCHANGED <<opened, link, rx, pending, cpc, ccmd, rchunks, nCalls, nOutcomes,
                   lastOutcome, writes, callWrites, failed>>
    /\ UNCHANGED <<srvVars, hostVars, toolVars, lifeVars>>

(* The tool function calls send_command on the connection it was given *)
ToolSend(reachable, io) ==
    /\ gpc = "send"
    /\ nOutcomes = mark
    /\ SendCommand(tcmd, reachable, io)

(* send_command has returned or raised, and the tool function returns *)
ToolDone ==
    /\ gpc = "send"
    /\ cpc = "idle"
    /\ nOutcomes > mark
    /\ gpc' = "idle"
    /\ UNCHANGED <<conn, attempt, mark, tcmd, gSocks, gOutcome, probed,
                   closedByClient, cret>>
    /\ UNCHANGED <<cliVars, srvVars, hostVars, toolVars, lifeVars>>

-----------------------------------------------------------------------------
(* MCP_Server/tools: the tool functions.  Each is one try block around     *)
(* get_ableton_connection() and its calls of send_command, with one except *)
(* Exception branch.                                                        *)

Tool(name, args) == [name |-> name, args |-> args]
NoTool == Tool("", << >>)
NoReturn == [kind |-> "none", value |-> ""]

(* A tool function returns the text *)
Str(text) == [kind |-> "returned", value |-> text]

(* kit_path as the tool is given it: the parts joined by "/" *)
RECURSIVE JoinPath(_)
JoinPath(parts) ==
    IF parts = <<>> THEN ""
    ELSE IF Len(parts) = 1 THEN parts[1]
    ELSE parts[1] \o "/" \o JoinPath(Tail(parts))

(* What the except branch of a tool writes before the exception's text *)
ErrorPrefix(name) ==
    CASE name = "get_session_info" -> "Error getting session info: "
      [] name = "set_tempo" -> "Error setting tempo: "
      [] name = "start_playback" -> "Error starting playback: "
      [] name = "load_instrument_or_effect" -> "Error loading instrument by URI: "
      [] name = "load_drum_kit" -> "Error loading drum kit: "

(* A tool without the try: the exception leaves the tool function *)
Uncaught(t, message) == [kind |-> "raised", value |-> message]

(* except Exception as e: return f"Error ...: {str(e)}" *)
Caught(t, message) == Str(ErrorPrefix(t.name) \o message)

(* The command of the first call of send_command in the tool *)
FirstCommand(t) ==
    CASE t.name = "get_session_info" -> Command("get_session_info", << >>)
      [] t.name = "set_tempo" -> Command("set_tempo", [tempo |-> t.args.tempo])
      [] t.name = "start_playback" -> Command("start_playback", << >>)
      [] t.name = "load_instrument_or_effect" ->
            Command("load_browser_item",
                    [track_index |-> t.args.track_index, item_uri |-> t.args.uri])
      [] t.name = "load_drum_kit" ->
            Command("load_browser_item",
                    [track_index |-> t.args.track_index, item_uri |-> t.args.rack_uri])

(* The tool returns the value; the tool calls send_command(command) next *)
Return(value) == [done |-> TRUE, value |-> value]
SendNext(command) == [done |-> FALSE, command |-> command]

(* loadable_kits = [item for item in kit_items if item.get("is_loadable", False)] *)
LoadableKits(kit_result) ==
    SelectSeq(Get(kit_result, "items", <<>>),
              LAMBDA item : Get(item, "is_loadable", FALSE))

(* load_drum_kit after its step-th call of send_command returned result;   *)
(* log holds the calls up to that one                                       *)
load_drum_kit(t, step, log, result) ==
    CASE step = 1 ->
            IF ~Get(result, "loaded", FALSE)
            THEN Return(Str("Failed to load drum rack with URI '" \o t.args.rack_uri \o "'"))
            ELSE SendNext(Command("get_browser_items_at_path",
                                  [path |-> t.args.kit_path]))
      [] step = 2 ->
            IF "error" \in DOMAIN result
            THEN Return(Str("Loaded drum rack but failed to find drum kit: "
                            \o result.error))
            ELSE IF LoadableKits(result) = <<>>
            THEN Return(Str("Loaded drum rack but no loadable drum kits found at '"
                            \o JoinPath(t.args.kit_path) \o "'"))
            ELSE SendNext(Command("load_browser_item",
                                  [track_index |-> t.args.track_index,
                                   item_uri |-> LoadableKits(result)[1].uri]))
      [] step = 3 ->
            Return(Str("Loaded drum rack and kit '"
                       \o LoadableKits(log[2].outcome.value)[1].name
                       \o "' on track " \o ToString(t.args.track_index)))

(* load_instrument_or_effect after send_command returned result; the host  *)
(* sends neither new_devices nor devices_after                              *)
load_instrument_or_effect(t, result) ==
    IF Get(result, "loaded", FALSE)
    THEN Return(Str("Loaded instrument with URI '" \o t.args.uri \o "' on track "
                    \o ToString(t.args.track_index) \o ". Devices on track: "))
    ELSE Return(Str("Failed to load instrument with URI '" \o t.args.uri \o "'"))

(* A tool after its step-th call of send_command has returned result *)
AfterSend(t, step, log, result) ==
    CASE t.name = "get_session_info" -> Return(Str(ToString(result)))
      [] t.name = "set_tempo" ->
            Return(Str("Set tempo to " \o ToString(t.args.tempo) \o " BPM"))
      [] t.name = "start_playback" -> Return(Str("Started playback"))
      [] t.name = "load_instrument_or_effect" -> load_instrument_or_effect(t, result)
      [] t.name = "load_drum_kit" -> load_drum_kit(t, step, log, result)

(* The calls of the tools: a read, a write, a load by URI, and the drum    *)
(* kit from a path that holds a kit, from one that holds only a folder and  *)
(* from one that does not exist                                             *)
ToolCalls ==
    {Tool("get_session_info", << >>),
     Tool("set_tempo", [tempo |-> 140000]),
     Tool("load_instrument_or_effect", [track_index |-> 0, uri |-> "uri:rack"])}
    \cup {Tool("load_drum_kit",
               [track_index |-> 0, rack_uri |-> "uri:rack", kit_path |-> p]) :
            p \in {<<"drums", "kits">>, <<"drums">>, <<"drums", "nope">>}}

(* A tool function is called: get_ableton_connection() first *)
ToolCall(t) ==
    /\ tstep = 0
    /\ get_ableton_connection(FirstCommand(t))
    /\ tool' = t
    /\ tstep' = 1
    /\ tlog' = <<>>
    /\ tret' = NoReturn

(* get_ableton_connection has raised after its last attempt *)
ToolGaveUp ==
    /\ tstep > 0
    /\ gpc = "idle"
    /\ tret' = Caught(tool, "Could not connect to Ableton. Make sure the Remote Script is running.")
    /\ tstep' = 0
    /\ UNCHANGED <<tool, tlog>>
    /\ UNCHANGED <<srvVars, cliVars, accVars, hostVars, lifeVars>>

(* send_command has returned or raised: the tool returns, or it goes on to *)
(* its next call of send_command on the same connection object              *)
ToolReturn ==
    /\ tstep > 0
    /\ gpc = "send"
    /\ cpc = "idle"
    /\ nOutcomes > mark
    /\ LET log == Append(tlog, [command |-> tcmd, outcome |-> lastOutcome])
           next == IF lastOutcome.kind = "raised"
                   THEN Return(Caught(tool, lastOutcome.message))
                   ELSE AfterSend(tool, tstep, log, lastOutcome.value)
       IN  /\ tlog' = log
           /\ IF next.done
              THEN /\ tret' = next.value
                   /\ tstep' = 0
                   /\ gpc' = "idle"
                   /\ UNCHANGED <<tcmd, mark>>
              ELSE /\ tcmd' = next.command
                   /\ mark' = nOutcomes
                   /\ tstep' = tstep + 1
                   /\ UNCHANGED <<gpc, tret>>
    /\ UNCHANGED <<tool, conn, attempt, gSocks, gOutcome, probed, closedByClient, cret>>
    /\ UNCHANGED <<cliVars, srvVars, hostVars, lifeVars>>

-----------------------------------------------------------------------------
(* _process_command on its own: one command after the other, each scheduled *)
(* task run by the main thread before the wait of its worker ends           *)

(* The response to a command and the song it leaves *)
Processed(command, s) ==
    LET command_type == CommandType(command)
        params == CommandParams(command)
    IN  IF command_type \in MutatingCommands
        THEN LET h == MainThreadTask(command_type, params, s) IN
             [resp |-> ResponseOfTask(TaskResponse(h)), song |-> h.song]
        ELSE [resp |-> SyncResponse(command_type, params, s), song |-> s]

(* Track indices below, in and beyond the range of a song of one or two    *)
(* tracks, and clip indices below, in and beyond the range of a track       *)
TrackIndices == {-1, 0, 1, 2}
ClipIndices == {-1, 0, NumScenes}

(* One index in range at least: the pairs the clip commands are given *)
IndexPairs ==
    {[track_index |-> t, clip_index |-> 0] : t \in TrackIndices}
        \cup {[track_index |-> 0, clip_index |-> c] : c \in ClipIndices}

(* Notes of a payload: two with every field, and three that lack one of    *)
(* the fields pitch, start_time and duration                                *)
FullNote == [pitch |-> 64, start_time |-> 0, duration |-> 1, velocity |-> 90,
             mute |-> FALSE]
PlainNote == [pitch |-> 0, start_time |-> 2, duration |-> 1]
NoPitchNote == [start_time |-> 0, duration |-> 1]
NoStartNote == [pitch |-> 64, duration |-> 1]
NoDurationNote == [pitch |-> 64, start_time |-> 0]

NoteBatches ==
    {<<FullNote>>, <<FullNote, PlainNote>>, <<NoPitchNote>>, <<NoStartNote>>,
     <<NoDurationNote>>, <<FullNote, NoPitchNote>>}

(* Clip lengths in beats, and tempi around both ends of the range *)
ClipLengths == {DefaultLength, 0, -1}

(* URIs of items of the browser, at depth MaxDepth and beyond it and under *)
(* a root category that is none of the five, and a URI of no item           *)
BrowserUris ==
    {"uri:rack", "uri:kit", "uri:pack", "uri:depth" \o ToString(MaxDepth),
     "uri:depth" \o ToString(MaxDepth + 1), "nowhere"}

(* Paths, as path.split("/") gives them *)
BrowserPaths ==
    {<<"drums", "kits", "kit">>, <<"DRUMS", "", "Kits">>, <<"drums", "nope">>,
     <<"Drum Rack">>, <<"packs", "pack">>}
Tempi == {MinTempo - 1, MinTempo, 140000, MaxTempo, MaxTempo + 1}

With(p, key, v) == [k \in DOMAIN p \cup {key} |-> IF k = key THEN v ELSE p[k]]

HostCommands ==
    {Command("get_track_info", [track_index |-> t]) : t \in TrackIndices}
        \cup {Command("set_track_name", [track_index |-> t, name |-> "verse"]) :
                t \in TrackIndices}
        \cup {Command("create_midi_track", [index |-> DefaultIndex])}
        \cup {Command("create_clip", With(p, "length", DefaultLength)) : p \in IndexPairs}
        \cup {Command("create_clip", [track_index |-> 0, clip_index |-> 0, length |-> l]) :
                l \in ClipLengths}
        \cup {Command("add_notes_to_clip", With(p, "notes", <<FullNote>>)) : p \in IndexPairs}
        \cup {Command("add_notes_to_clip",
                      [track_index |-> 0, clip_index |-> 0, notes |-> b]) : b \in NoteBatches}
        \cup {Command("set_clip_name", With(p, "name", "verse")) : p \in IndexPairs}
        \cup {Command("fire_clip", p) : p \in IndexPairs}
        \cup {Command("stop_clip", p) : p \in IndexPairs}
        \cup {Command("load_browser_item",
                      [track_index |-> t, item_uri |-> "uri:rack"]) :
                t \in TrackIndices}
        \cup {Command("load_browser_item", [track_index |-> t, item_uri |-> u]) :
                t \in {0, 1}, u \in {"nowhere", "uri:pack"}}
        \cup {Command("get_browser_item", [uri |-> u]) : u \in BrowserUris}
        \cup {Command("get_browser_item", [path |-> p]) : p \in BrowserPaths}
        \cup {Command("get_browser_item", [uri |-> "nowhere", path |-> <<"drums", "kits">>]),
              Command("get_browser_item", << >>)}
        \cup {Command("set_tempo", [tempo |-> t]) : t \in Tempi}

(* The Command Server processes one command *)
ProcessCommand(command) ==
    /\ hn < MaxCmds
    /\ hn' = hn + 1
    /\ hcmd' = command
    /\ hprior' = song
    /\ hresp' = Processed(command, song).resp
    /\ song' = Processed(command, song).song
    /\ UNCHANGED <<srvRest, cliVars, accVars, lifeVars, toolVars>>

-----------------------------------------------------------------------------
(* The Command Server *)

NoResponse == [rid |-> 0, resp |-> << >>, of |-> NoTask]

(* The state after construction, whichever class listens *)
Constructed ==
    /\ running = TRUE
    /\ listening = TRUE
    /\ song = InitSong
    /\ wstate = [c \in Conns |-> "unborn"]
    /\ buffer = [c \in Conns |-> <<>>]
    /\ inbox = [c \in Conns |-> <<>>]
    /\ peer = [c \in Conns |-> "open"]
    /\ mainQueue = <<>>
    /\ respQ = {}
    /\ lastRun = [type |-> "", thread |-> ""]
    /\ nWritten = [c \in Conns |-> 0]
    /\ lastWritten = [c \in Conns |-> <<>>]
    /\ framed = [c \in Conns |-> TRUE]
    /\ nParsed = [c \in Conns |-> 0]
    /\ lastParsed = [c \in Conns |-> [kind |-> "invalid"]]
    /\ nSent = [c \in Conns |-> 0]
    /\ lastSent = [c \in Conns |-> NoResponse]
    /\ stray = [c \in Conns |-> 0]
    /\ sock = 0
    /\ opened = 0
    /\ link = [s \in Sockets |-> "none"]
    /\ rx = [s \in Sockets |-> <<>>]
    /\ pending = [s \in Sockets |-> <<>>]
    /\ cpc = "idle"
    /\ ccmd = << >>
    /\ rchunks = <<>>
    /\ nCalls = 0
    /\ nOutcomes = 0
    /\ lastOutcome = NoOutcome
    /\ writes = [s \in Sockets |-> 0]
    /\ callWrites = 0
    /\ failed = {}
    /\ conn = FALSE
    /\ gpc = "idle"
    /\ attempt = 0
    /\ mark = 0
    /\ tcmd = << >>
    /\ gSocks = {}
    /\ gOutcome = NoAccess
    /\ probed = {}
    /\ closedByClient = {}
    /\ cret = NoConnect
    /\ hcmd = << >>
    /\ hresp = << >>
    /\ hprior = InitSong
    /\ hn = 0
    /\ apc = "test"
    /\ dpc = "idle"
    /\ accepted = {}
    /\ spawned = [c \in Conns |-> 0]
    /\ tool = NoTool
    /\ tstep = 0
    /\ tlog = <<>>
    /\ tret = NoReturn

Init ==
    /\ Constructed
    /\ impl = "AbletonMCP"
    /\ handler = TRUE

(* The MCP server once server_lifespan has called get_ableton_connection() *)
(* and the probe has passed on socket 1; the calls are counted from there   *)
InitTools ==
    /\ running = TRUE
    /\ listening = TRUE
    /\ song = InitSong
    /\ wstate = [c \in Conns |-> "unborn"]
    /\ buffer = [c \in Conns |-> <<>>]
    /\ inbox = [c \in Conns |-> <<>>]
    /\ peer = [c \in Conns |-> "open"]
    /\ mainQueue = <<>>
    /\ respQ = {}
    /\ lastRun = [type |-> "", thread |-> ""]
    /\ nWritten = [c \in Conns |-> 0]
    /\ lastWritten = [c \in Conns |-> <<>>]
    /\ framed = [c \in Conns |-> TRUE]
    /\ nParsed = [c \in Conns |-> 0]
    /\ lastParsed = [c \in Conns |-> [kind |-> "invalid"]]
    /\ nSent = [c \in Conns |-> 0]
    /\ lastSent = [c \in Conns |-> NoResponse]
    /\ stray = [c \in Conns |-> 0]
    /\ sock = 1
    /\ opened = 1
    /\ link = [s \in Sockets |-> IF s = 1 THEN "open" ELSE "none"]
    /\ rx = [s \in Sockets |-> <<>>]
    /\ pending = [s \in Sockets |-> <<>>]
    /\ cpc = "idle"
    /\ ccmd = << >>
    /\ rchunks = <<>>
    /\ nCalls = 0
    /\ nOutcomes = 0
    /\ lastOutcome = NoOutcome
    /\ writes = [s \in Sockets |-> IF s = 1 THEN 1 ELSE 0]
    /\ callWrites = 0
    /\ failed = {}
    /\ conn = TRUE
    /\ gpc = "idle"
    /\ attempt = 0
    /\ mark = 0
    /\ tcmd = << >>
    /\ gSocks = {1}
    /\ gOutcome = Created(1, 1)
    /\ probed = {1}
    /\ closedByClient = {}
    /\ cret = ConnectCalled(connect(0, 0, TRUE), 0, 0)
    /\ hcmd = << >>
    /\ hresp = << >>
    /\ hprior = InitSong
    /\ hn = 0
    /\ apc = "test"
    /\ dpc = "idle"
    /\ accepted = {}
    /\ spawned = [c \in Conns |-> 0]
    /\ impl = "AbletonMCP"
    /\ handler = TRUE
    /\ tool = NoTool
    /\ tstep = 0
    /\ tlog = <<>>
    /\ tret = NoReturn

(* A listener of either class; a SocketServer with or without a call of    *)
(* set_client_handler before start()                                        *)
InitLifecycle ==
    /\ Constructed
    /\ impl \in Implementations
    /\ handler \in IF impl = "SocketServer" THEN BOOLEAN ELSE {TRUE}

Next ==
    \/ \E c \in Conns : Accept(c)
    \/ \E c \in Conns : WorkerReceive(c)
    \/ \E c \in Conns : WorkerPeerClosed(c)
    \/ \E c \in Conns : WorkerRecvError(c)
    \/ \E c \in Conns : WorkerGetResult(c)
    \/ \E c \in Conns : WorkerTimeout(c)
    \/ MainThreadRun
    \/ Disconnect
    \/ \E c \in Conns, text \in RequestTexts : PeerSend(c, text)
    \/ \E c \in Conns : PeerClose(c)
    \/ \E c \in Conns : PeerReset(c)

Spec == Init /\ [][Next]_vars

(* The Connection Client and the Command Server it talks to *)
NextClient ==
    \/ \E command \in ClientCalls, reachable \in BOOLEAN, io \in SendOutcomes :
            SendCommand(command, reachable, io)
    \/ ReceiveChunk
    \/ ReceiveClosed
    \/ ReceiveTimeout
    \/ ReceiveReset
    \/ \E s \in Sockets : ServerRespond(s)
    \/ \E s \in Sockets : ServerBreaksOff(s)
    \/ \E s \in Sockets : ServerClose(s)
    \/ \E s \in Sockets : ServerReset(s)

SpecClient == Init /\ [][NextClient]_vars

(* The AbletonConnection object with connect() and disconnect() called on  *)
(* it between the calls of send_command                                     *)
NextConnection ==
    \/ \E reachable \in BOOLEAN : Connect(reachable)
    \/ ConnectionDisconnect
    \/ \E reachable \in BOOLEAN : SendCommand(ProbeCommand, reachable, "sent")
    \/ ReceiveChunk
    \/ ReceiveClosed
    \/ ReceiveTimeout
    \/ ReceiveReset
    \/ \E s \in Sockets : ServerRespond(s)
    \/ \E s \in Sockets : ServerClose(s)
    \/ \E s \in Sockets : ServerReset(s)

SpecConnection == Init /\ [][NextConnection]_vars

(* The tool functions, one invocation at a time, on the process-wide       *)
(* connection                                                               *)
NextAccessor ==
    \/ \E command \in ClientCalls : GetAbletonConnection(command)
    \/ \E reachable \in BOOLEAN : Attempt(reachable)
    \/ \E io \in SendOutcomes : ProbeSend(io)
    \/ ProbeDone
    \/ \E reachable \in BOOLEAN, io \in SendOutcomes : ToolSend(reachable, io)
    \/ ToolDone
    \/ ReceiveChunk
    \/ ReceiveClosed
    \/ ReceiveTimeout
    \/ ReceiveReset
    \/ \E s \in Sockets : ServerRespond(s)
    \/ \E s \in Sockets : ServerBreaksOff(s)
    \/ \E s \in Sockets : ServerClose(s)
    \/ \E s \in Sockets : ServerReset(s)

SpecAccessor == Init /\ [][NextAccessor]_vars

(* The handlers behind _process_command, command by command *)
NextHost == \E command \in HostCommands : ProcessCommand(command)

SpecHost == Init /\ [][NextHost]_vars

(* The tool functions, one call at a time, each with all its calls of    *)
(* send_command                                                             *)
NextTools ==
    \/ \E t \in ToolCalls : ToolCall(t)
    \/ \E reachable \in BOOLEAN : Attempt(reachable)
    \/ \E io \in SendOutcomes : ProbeSend(io)
    \/ ProbeDone
    \/ \E reachable \in BOOLEAN, io \in SendOutcomes : ToolSend(reachable, io)
    \/ ToolReturn
    \/ ToolGaveUp
    \/ ReceiveChunk
    \/ ReceiveClosed
    \/ ReceiveTimeout
    \/ ReceiveReset
    \/ \E s \in Sockets : ServerRespond(s)
    \/ \E s \in Sockets : ServerClose(s)
    \/ \E s \in Sockets : ServerReset(s)

SpecTools == InitTools /\ [][NextTools]_vars

(* The accept loop, the workers it starts and the shutdown. Every thread   *)
(* that can take a step takes one in the end: the server thread, each       *)
(* worker, the host's main thread, and disconnect() once it is called.      *)
NextLifecycle ==
    \/ ServerThreadTest
    \/ \E c \in Conns : AcceptConnection(c)
    \/ AcceptRaises
    \/ DisconnectStep
    \/ \E c \in Conns : WorkerStep(c)
    \/ MainThreadRun
    \/ \E c \in Conns, text \in LifecycleTexts : PeerSend(c, text)
    \/ \E c \in Conns : PeerClose(c)
    \/ \E c \in Conns : PeerReset(c)

SpecLifecycle ==
    /\ InitLifecycle
    /\ [][NextLifecycle]_vars
    /\ WF_vars(ServerThreadTest)
    /\ WF_vars(AcceptRaises)
    /\ WF_vars(dpc # "idle" /\ DisconnectStep)
    /\ \A c \in Conns : WF_vars(WorkerStep(c))
    /\ WF_vars(MainThreadRun)

-----------------------------------------------------------------------------
(* Properties of the Command Server *)

CommandVocabulary == MutatingCommands \cup ReadOnlyCommands

(* The worker of c is between requests, or gone *)
Settled(c) == wstate[c] # "wait"

(* The socket of c is dead: every send on it raises *)
Dead(c) == peer[c] = "reset"

(* The response queue of the request the worker of c waits for is empty *)
NothingToGet(c) == ~\E r \in respQ : r.c = c /\ r.rid = nParsed[c]

(* The result r is on a queue nobody reads any more *)
Orphaned(r) == ~(wstate[r.c] = "wait" /\ nParsed[r.c] = r.rid)

(* C1: every request the worker has received and parsed gets exactly one   *)
(* response on its connection, whether the handler returned, raised or     *)
(* timed out, unless the socket is dead: the responses sent never exceed   *)
(* the requests parsed, at most one request is unanswered, and none is     *)
(* once the worker is done with it.                                         *)
C1_ExactlyOneResponse ==
    \A c \in Conns :
        /\ nSent[c] <= nParsed[c]
        /\ nParsed[c] <= nSent[c] + 1
        /\ (Settled(c) /\ ~Dead(c)) => nSent[c] = nParsed[c]

(* C1 witness: a second request answered with an error on a live socket *)
C1_Witness ==
    \E c \in Conns :
        /\ nParsed[c] = 2 /\ nSent[c] = 2 /\ ~Dead(c)
        /\ lastSent[c].resp = TimeoutResponse

(* C2: every response sent has a status field that is "success" or "error", *)
(* and the response to a command type without handler is an error envelope. *)
C2_StatusField ==
    \A c \in Conns :
        /\ stray[c] > 0 => DecodeErrorResponse.status \in {"success", "error"}
        /\ nSent[c] > 0 =>
            /\ "status" \in DOMAIN lastSent[c].resp
            /\ lastSent[c].resp.status \in {"success", "error"}
            /\ (/\ lastSent[c].rid = nParsed[c]
                /\ lastParsed[c].kind = "object"
                /\ CommandType(lastParsed[c].value) \notin CommandVocabulary)
               => lastSent[c].resp.status = "error"

(* C2 witness: responses of the timeout path and of the missing handler *)
C2_Witness ==
    /\ \E c \in Conns : nSent[c] > 0 /\ lastSent[c].resp = TimeoutResponse
    /\ \E c \in Conns : nSent[c] > 0 /\ lastSent[c].resp = UnknownResponse("bogus")

(* The worker of c parses an object whose type is not in the vocabulary *)
ParsesUnknown(c) ==
    /\ nParsed'[c] = nParsed[c] + 1
    /\ lastParsed'[c].kind = "object"
    /\ CommandType(lastParsed'[c].value) \notin CommandVocabulary

(* C3: a well-formed envelope of unknown type is answered, on a live       *)
(* connection, with the error "Unknown command: <type>"; no handler runs,  *)
(* no task is scheduled, the song is unchanged, and while the server runs  *)
(* the worker is back in recv with an empty buffer.                        *)
C3_UnknownCommand ==
    [][\A c \in Conns :
        ParsesUnknown(c) =>
            /\ ~Dead(c) =>
                /\ nSent'[c] = nSent[c] + 1
                /\ lastSent'[c].rid = nParsed'[c]
                /\ lastSent'[c].resp =
                     [status |-> "error", result |-> << >>,
                      message |-> "Unknown command: " \o CommandType(lastParsed'[c].value)]
            /\ song' = song /\ mainQueue' = mainQueue /\ respQ' = respQ
            /\ lastRun' = lastRun
            /\ (~Dead(c) /\ running) => (wstate'[c] = "recv" /\ buffer'[c] = <<>>)]_vars

(* C3 witness: an unknown command answered as the second request of its    *)
(* connection, the worker back in recv                                      *)
C3_Witness ==
    \E c \in Conns :
        /\ nSent[c] = 2 /\ lastSent[c].rid = 2
        /\ lastSent[c].resp = UnknownResponse("bogus")
        /\ wstate[c] = "recv" /\ buffer[c] = <<>>

(* C4: a handler of a state-mutating command runs on the main thread only. *)
C4_MainThreadOnly ==
    lastRun.type \in MutatingCommands => lastRun.thread = "main"

(* The worker of c gives up waiting for the result of its request *)
TimesOut(c) == wstate[c] = "wait" /\ NothingToGet(c) /\ wstate'[c] # "wait"

(* The main thread runs a task whose result nobody waits for *)
RunsOrphan ==
    /\ mainQueue # <<>>
    /\ mainQueue' = Tail(mainQueue)
    /\ Orphaned(Head(mainQueue))

(* C5: on a timeout the worker answers "Timeout waiting for operation to   *)
(* complete" and the task stays queued; when the main thread runs it, its  *)
(* effect on the song is applied and its result is put on a queue that is  *)
(* never read: no response to any client is made from the result of a task *)
(* of another request.                                                      *)
C5_TimeoutOrphan ==
    /\ [][\A c \in Conns :
            TimesOut(c) =>
                /\ ~Dead(c) =>
                    /\ nSent'[c] = nSent[c] + 1
                    /\ lastSent'[c] = [rid |-> nParsed[c], resp |-> TimeoutResponse,
                                       of |-> NoTask]
                /\ mainQueue' = mainQueue
                /\ \E i \in 1..Len(mainQueue) :
                       mainQueue[i].c = c /\ mainQueue[i].rid = nParsed[c]
                /\ song' = song]_vars
    /\ [][RunsOrphan =>
            LET task == Head(mainQueue)
                h == MainThreadTask(task.type, task.params, song)
            IN  /\ song' = h.song
                /\ [c |-> task.c, rid |-> task.rid, resp |-> TaskResponse(h)] \in respQ'
                /\ nSent' = nSent /\ lastSent' = lastSent]_vars
    /\ [][\A r \in respQ : Orphaned(r) => r \in respQ']_vars
    /\ [](\A c \in Conns :
            lastSent[c].of \in {NoTask, [c |-> c, rid |-> lastSent[c].rid]})

(* C5 witness: a request was answered with the timeout error, its task ran *)
(* afterwards and changed the tempo, and a later request of the connection *)
(* has been answered                                                        *)
C5_Witness ==
    \E r \in respQ :
        /\ r.rid = 1 /\ r.resp.status = "success"
        /\ song.tempo = 140000
        /\ nSent[r.c] = 2 /\ lastSent[r.c].rid = 2

(* C6: the requests of a connection are processed one at a time: while a   *)
(* request is unanswered the worker receives nothing and parses nothing,   *)
(* and the n-th response answers the n-th request.                         *)
C6_Sequential ==
    /\ [](\A c \in Conns :
            /\ nParsed[c] \in {nSent[c], nSent[c] + 1}
            /\ nSent[c] > 0 => lastSent[c].rid = nSent[c])
    /\ [][\A c \in Conns :
            /\ wstate[c] = "wait" =>
                /\ nParsed'[c] = nParsed[c]
                /\ buffer'[c] = buffer[c]
                /\ wstate'[c] # "exited" => Len(inbox'[c]) >= Len(inbox[c])
            /\ nSent'[c] # nSent[c] =>
                (nSent'[c] = nSent[c] + 1 /\ lastSent'[c].rid = nSent[c] + 1)]_vars

(* C6 witness: the peer wrote its second request before the first was      *)
(* answered, and both were answered in order                                *)
C6_Witness ==
    \E c \in Conns : ~framed[c] /\ nSent[c] = 2 /\ lastSent[c].rid = 2

(* C7: however the text of a request is cut into chunks, nothing is        *)
(* answered before its last chunk has arrived, what is pending is the      *)
(* text as written, and once it has all arrived the command is dispatched  *)
(* once, with the type and params of the text parsed as a whole.           *)
C7_ChunkedRequest ==
    \A c \in Conns :
        (framed[c] /\ wstate[c] \in {"recv", "wait"}) =>
            LET unread == Encode(buffer[c]) \o inbox[c] IN
            IF unread # <<>>
            THEN /\ nParsed[c] = nWritten[c] - 1
                 /\ nSent[c] = nWritten[c] - 1
                 /\ stray[c] = 0
                 /\ unread = lastWritten[c]
            ELSE /\ nParsed[c] = nWritten[c]
                 /\ stray[c] = 0
                 /\ nWritten[c] > 0 =>
                     /\ lastParsed[c] = LoadsBytes(lastWritten[c])
                     /\ \A i \in 1..Len(mainQueue) :
                            (mainQueue[i].c = c /\ mainQueue[i].rid = nParsed[c]) =>
                                /\ mainQueue[i].type = CommandType(lastParsed[c].value)
                                /\ mainQueue[i].params = CommandParams(lastParsed[c].value)

-----------------------------------------------------------------------------
(* Properties of the Connection Client, checked under SpecClient *)

(* The call raised for a failure of the transport: of the send, of the      *)
(* receive, or of a response that is no envelope                            *)
TransportFailure(o) ==
    o.kind = "raised" /\ o.origin \in {"send", "receive", "response"}

(* The call raised the error envelope of a rejected or unknown command, as *)
(* opposed to the envelope of a timed-out task                              *)
RejectedByServer(o) ==
    /\ o.kind = "raised"
    /\ o.origin = "envelope"
    /\ o.message # "Communication error with Ableton: " \o TimeoutResponse.message

(* C8: after send_command fails with a transport-level error (a timeout, a *)
(* connection reset or closed, a malformed or incomplete response) the      *)
(* socket handle is unset; the next send_command that writes has connected *)
(* a new socket first; and no command is ever written to a socket that a    *)
(* failed send_command held.                                                *)
C8_FailedSocketDropped ==
    /\ []((cpc = "idle" /\ TransportFailure(lastOutcome)) => sock = 0)
    /\ [](sock \notin failed)
    /\ [][\A s \in Sockets : writes'[s] > writes[s] =>
            /\ s \notin failed
            /\ TransportFailure(lastOutcome) =>
                  /\ link[s] = "none"
                  /\ link'[s] = "open"
                  /\ opened' = opened + 1
                  /\ s = opened']_vars

(* A call is writing on a second socket after a call on the first one       *)
(* failed for the transport                                                 *)
C8_Witness ==
    /\ cpc = "receiving"
    /\ TransportFailure(lastOutcome)
    /\ lastOutcome.used # 0
    /\ sock # lastOutcome.used
    /\ writes[lastOutcome.used] > 0
    /\ writes[sock] = 1

(* C9: send_command never retries: during one call the command is written  *)
(* to a socket at most once, and the call ends with exactly one outcome, a *)
(* returned result or a raised error.                                       *)
C9_NoRetry ==
    /\ callWrites <= 1
    /\ SumOver(writes, Sockets) <= nCalls
    /\ cpc = "idle" => nOutcomes = nCalls
    /\ cpc = "receiving" => (nOutcomes = nCalls - 1 /\ callWrites = 1)
    /\ (nOutcomes > 0) = (lastOutcome.kind \in {"returned", "raised"})

(* A call that wrote its command once has raised after the timeout, and the *)
(* server still holds the command unanswered                                *)
C9_Witness ==
    /\ cpc = "idle"
    /\ callWrites = 1
    /\ TransportFailure(lastOutcome)
    /\ lastOutcome.message = "Communication error with Ableton: No data received"
    /\ pending[lastOutcome.used] # <<>>
    /\ nOutcomes = nCalls

(* C10: when the server answers with the error envelope of a validation     *)
(* error or of an unknown command, the Connection Client keeps its socket   *)
(* handle, so that the next send_command goes over the same connection.     *)
C10_ErrorEnvelopeKeepsSocket ==
    (cpc = "idle" /\ RejectedByServer(lastOutcome)) => sock = lastOutcome.used

-----------------------------------------------------------------------------
(* Properties of the process-wide connection, checked under SpecAccessor *)

(* C11: get_ableton_connection validates liveness before reuse: a held     *)
(* connection that it returns has a socket, and that socket's connection   *)
(* is still open, neither reset nor closed by the server.                   *)
C11_LivenessBeforeReuse ==
    gOutcome.kind = "reused" => (gOutcome.sock # 0 /\ gOutcome.link = "open")

(* What the liveness check does find: a connection whose handle is unset   *)
(* or whose socket was reset is never returned for reuse                    *)
ReuseHasLiveHandle ==
    gOutcome.kind = "reused" => (gOutcome.sock # 0 /\ gOutcome.link # "reset")

-----------------------------------------------------------------------------
(* Properties of connect(), checked under SpecConnection *)

(* C13: connect() is idempotent: called while a socket is held it returns  *)
(* true, connects no socket and leaves the handle as it was; called while  *)
(* none is held it connects one socket and returns true, or returns false  *)
(* with the handle unset.  At most one socket is open after any calls, and *)
(* it is the one held.                                                      *)
C13_ConnectIdempotent ==
    /\ cret.called =>
          /\ cret.before # 0 =>
                /\ cret.ret
                /\ cret.after = cret.before
                /\ cret.openedAfter = cret.openedBefore
          /\ cret.before = 0 =>
                IF cret.ret
                THEN /\ cret.openedAfter = cret.openedBefore + 1
                     /\ cret.after = cret.openedAfter
                ELSE /\ cret.openedAfter = cret.openedBefore
                     /\ cret.after = 0
    /\ Cardinality(OpenSockets) <= 1
    /\ \A s \in OpenSockets : s = sock

(* connect() was called on a connection that held its second socket, and   *)
(* that socket is still the one held                                        *)
C13_Witness ==
    /\ cret.called
    /\ cret.before = 2
    /\ cret.ret
    /\ sock = 2
    /\ OpenSockets = {2}

-----------------------------------------------------------------------------
(* Properties of the handlers, checked under SpecHost *)

(* The command last processed, and its indices in the song it met *)
LastType == CommandType(hcmd)
LastParams == CommandParams(hcmd)

TrackInRange == 0 <= LastParams.track_index /\ LastParams.track_index < Len(hprior.tracks)

SlotInRange ==
    /\ TrackInRange
    /\ 0 <= LastParams.clip_index
    /\ LastParams.clip_index < Len(hprior.tracks[LastParams.track_index + 1].clip_slots)

PriorSlot == SlotAt(hprior, LastParams.track_index, LastParams.clip_index)

Rejected == hresp.status = "error" /\ song = hprior

TakesTrackIndex ==
    {"get_track_info", "set_track_name", "create_clip", "add_notes_to_clip",
     "set_clip_name", "fire_clip", "stop_clip", "load_browser_item"}

(* C15: for a track_index outside [0, track_count) every command that      *)
(* takes a track_index answers with an error envelope and leaves the song  *)
(* (tracks, clips, names, notes, selected track, playback) as it was.       *)
C15_TrackIndexOutOfRange ==
    (hn > 0 /\ LastType \in TakesTrackIndex /\ ~TrackInRange) => Rejected

(* load_browser_item was given the index just beyond a list of two tracks *)
C15_Witness ==
    /\ hn > 0
    /\ LastType = "load_browser_item"
    /\ Len(hprior.tracks) = 2
    /\ LastParams.track_index = 2
    /\ hresp.status = "error"
    /\ hresp.message = "Track index out of range"

(* C16: set_tempo accepts exactly [20.0, 999.0]: a tempo in the interval,  *)
(* ends included, becomes the song tempo and the response is success with  *)
(* result {tempo: that value}; a tempo outside it gets an error envelope   *)
(* and the song tempo stays.                                                *)
C16_TempoRange ==
    (hn > 0 /\ LastType = "set_tempo") =>
        IF 20000 <= LastParams.tempo /\ LastParams.tempo <= 999000
        THEN /\ song.tempo = LastParams.tempo
             /\ song = [hprior EXCEPT !.tempo = LastParams.tempo]
             /\ hresp.status = "success"
             /\ hresp.result = [tempo |-> LastParams.tempo]
        ELSE /\ Rejected
             /\ song.tempo = hprior.tempo

(* The upper end of the interval was accepted after the lower end *)
C16_Witness ==
    /\ hn > 0
    /\ LastType = "set_tempo"
    /\ LastParams.tempo = 999000
    /\ hprior.tempo = 20000
    /\ song.tempo = 999000
    /\ hresp.status = "success"

(* A note add_notes_to_clip has to reject *)
BadNote(note) ==
    \/ ~({"pitch", "start_time", "duration"} \subseteq DOMAIN note)
    \/ note.pitch \notin 0..127
    \/ Get(note, "velocity", 100) \notin 0..127
    \/ note.duration <= 0
    \/ note.start_time < 0

(* C17: add_notes_to_clip rejects every batch with a note that lacks       *)
(* pitch, start_time or duration or has pitch or velocity outside [0,127], *)
(* duration <= 0 or start_time < 0: an error envelope, and no note added;  *)
(* a batch of K valid notes on an existing clip returns {note_count: K}.    *)
C17_NoteValidation ==
    (hn > 0 /\ LastType = "add_notes_to_clip") =>
        IF \E i \in 1..Len(LastParams.notes) : BadNote(LastParams.notes[i])
        THEN Rejected
        ELSE (SlotInRange /\ PriorSlot.has_clip) =>
                /\ hresp.status = "success"
                /\ hresp.result = [note_count |-> Len(LastParams.notes)]

(* C18: create_clip on a slot that holds a clip answers with an error      *)
(* envelope and leaves the clip as it was, none created and none replaced; *)
(* create_clip repeated with the indices of a successful create_clip fails. *)
C18_OccupiedSlot ==
    /\ []((hn > 0 /\ LastType = "create_clip" /\ SlotInRange /\ PriorSlot.has_clip) =>
            Rejected)
    /\ [][(/\ hn > 0
           /\ LastType = "create_clip"
           /\ hresp.status = "success"
           /\ CommandType(hcmd') = "create_clip"
           /\ CommandParams(hcmd').track_index = LastParams.track_index
           /\ CommandParams(hcmd').clip_index = LastParams.clip_index)
          => (hresp'.status = "error" /\ song' = song)]_vars

(* create_clip was refused on a slot whose clip had been renamed *)
C18_Witness ==
    /\ hn > 0
    /\ LastType = "create_clip"
    /\ hresp.status = "error"
    /\ hresp.message = "Clip slot already has a clip"
    /\ SlotAt(song, 0, 0).clip.name = "verse"
    /\ SlotAt(song, 0, 0).clip.length = DefaultLength

(* C19: create_clip validates the length before it changes the host: for   *)
(* every length <= 0 it answers with an error envelope and no clip is      *)
(* created in the slot.                                                     *)
C19_ClipLengthValidated ==
    (hn > 0 /\ LastType = "create_clip" /\ LastParams.length <= 0) => Rejected

(* C20: with indices in range and no clip in the slot, fire_clip,          *)
(* stop_clip, set_clip_name and add_notes_to_clip answer with the error    *)
(* envelope whose message is "No clip in slot", and nothing is fired,      *)
(* stopped, renamed or given notes.                                         *)
C20_NoClipInSlot ==
    (/\ hn > 0
     /\ LastType \in {"fire_clip", "stop_clip", "set_clip_name", "add_notes_to_clip"}
     /\ SlotInRange
     /\ ~PriorSlot.has_clip)
    => (/\ Rejected
        /\ hresp.message = "No clip in slot")

(* add_notes_to_clip met the empty slot of a second track *)
C20_Witness ==
    /\ hn > 0
    /\ LastType = "add_notes_to_clip"
    /\ LastParams.track_index = 1
    /\ SlotInRange
    /\ ~PriorSlot.has_clip
    /\ hresp.message = "No clip in slot"

-----------------------------------------------------------------------------
(* Properties of the main-thread tasks, checked under Spec *)

(* The main thread takes the task at the head of its queue and runs it *)
RunsHead ==
    /\ mainQueue # <<>>
    /\ mainQueue' = Tail(mainQueue)
    /\ song' = MainThreadTask(Head(mainQueue).type, Head(mainQueue).params, song).song

(* C26: the tasks of mutating commands, whatever connection they come      *)
(* from, run one at a time on the main thread in the order in which they   *)
(* were scheduled: every change of the host state is made by the main      *)
(* thread running the task at the head of its queue, so the effects of two *)
(* mutating commands never interleave.                                      *)
C26_TasksSerialized ==
    [][song' # song => RunsHead]_vars

(* The tasks that were scheduled are run first in, first out: the queue    *)
(* grows at its end and shrinks at its head, and a task leaves it only     *)
(* when the main thread runs it                                             *)
ScheduledRunInOrder ==
    [][\/ mainQueue' = mainQueue
       \/ mainQueue # <<>> /\ mainQueue' = Tail(mainQueue)
                /\ lastRun' = [type |-> Head(mainQueue).type, thread |-> "main"]
       \/ Len(mainQueue') = Len(mainQueue) + 1
                /\ SubSeq(mainQueue', 1, Len(mainQueue)) = mainQueue]_vars

-----------------------------------------------------------------------------
(* Properties of receive_full_response, checked under SpecClient *)

(* The bytes the call of receive_full_response has been given when this    *)
(* step ends: the chunks joined so far and what this step takes from the   *)
(* socket                                                                   *)
ReceivedNow ==
    rchunks \o SubSeq(rx[sock], 1, Len(rx[sock]) - Len(rx'[sock]))

Parses(data) == LoadsBytes(data).kind \notin {"invalid", "undecodable"}

(* receive_full_response ends in this step *)
ReceiveEnds == cpc = "receiving" /\ cpc' = "idle"

(* C25: receive_full_response returns bytes only when they parse as one    *)
(* JSON value, and as soon as the chunks joined so far parse; when the     *)
(* loop ends on a timeout or on the end of the stream it parses once more  *)
(* and raises when the data is incomplete, and with no data it raises; it  *)
(* never returns partial or empty data.                                     *)
C25_ReceivesWholeValue ==
    /\ [](cpc = "receiving" => ~Parses(rchunks))
    /\ [][ReceiveEnds =>
            IF Parses(ReceivedNow)
            THEN \/ /\ lastOutcome'.kind = "returned"
                    /\ lastOutcome'.value =
                         Get(LoadsBytes(ReceivedNow).value, "result", << >>)
                 \/ /\ lastOutcome'.kind = "raised"
                    /\ lastOutcome'.origin \in {"envelope", "response"}
            ELSE /\ lastOutcome'.kind = "raised"
                 /\ lastOutcome'.origin = "receive"]_vars

(* The stream ended after a part of a response had arrived, and the call   *)
(* raised for the incomplete data                                           *)
C25_Witness ==
    /\ cpc = "idle"
    /\ lastOutcome.kind = "raised"
    /\ lastOutcome.message =
         "Communication error with Ableton: Incomplete JSON response received"

-----------------------------------------------------------------------------
(* Properties of the browser lookup, checked under SpecHost *)

(* The items at depth `depth` and below, down to depth max_depth *)
RECURSIVE ItemsUnder(_, _, _)
ItemsUnder(item, depth, max_depth) ==
    {item} \cup
    (IF depth < max_depth
     THEN UNION {ItemsUnder(item.children[i], depth + 1, max_depth) :
                    i \in 1..Len(item.children)}
     ELSE {})

(* The items within max_depth under the root categories named *)
ItemsOf(categories, max_depth) ==
    UNION {ItemsUnder(Browser[categories[i]], 1, max_depth) : i \in 1..Len(categories)}

(* The URI the command last processed looks up *)
LookedUp ==
    IF LastType = "load_browser_item" THEN Get(LastParams, "item_uri", "")
    ELSE Get(LastParams, "uri", "")

LooksUpUri ==
    /\ hn > 0
    /\ LastType \in {"get_browser_item", "load_browser_item"}
    /\ LookedUp # ""

(* What _find_browser_item_by_uri returns for the URI against the items    *)
(* under the given root categories                                          *)
FindsExactly(categories) ==
    LET item == FindBrowserItemByUri(Browser, LookedUp, MaxDepth, 0) IN
    IF \E it \in ItemsOf(categories, MaxDepth) : it.uri = LookedUp
    THEN item # NoItem /\ item.uri = LookedUp
    ELSE item = NoItem

(* C29: _find_browser_item_by_uri goes no deeper than max_depth (10) below *)
(* the browser and returns an item with exactly the URI asked for if and   *)
(* only if there is one within that depth under a root category the        *)
(* browser exposes, the five standard ones or any other; else no item.      *)
C29_UriLookup == LooksUpUri => FindsExactly(BrowserAttrs)

(* The same against the five categories the lookup visits *)
FindsUnderStandard == LooksUpUri => FindsExactly(StandardCategories)

(* The path of a get_browser_item leads to an item *)
PathLeads(path) ==
    /\ path # <<>>
    /\ LET std == Lower(path[1]) \in {StandardCategories[i] : i \in 1..5}
       IN WalkPath(IF std THEN Browser[Lower(path[1])] ELSE Browser.instruments,
                   IF std THEN path ELSE <<"instruments">> \o path, 2).found

(* C28: get_browser_item answers a uri or path that matches no item with a *)
(* success envelope whose result has found = false, not with an error      *)
(* envelope; when an item matches, the result has found = true and the     *)
(* descriptor of that item.                                                 *)
C28_NotFoundIsResult ==
    (hn > 0 /\ LastType = "get_browser_item") =>
        LET uri == Get(LastParams, "uri", "")
            path == Get(LastParams, "path", << >>)
            byUri == {it \in ItemsOf(BrowserAttrs, MaxDepth) : uri # "" /\ it.uri = uri}
        IN  /\ hresp.status = "success"
            /\ song = hprior
            /\ hresp.result.found = (byUri # {} \/ PathLeads(path))
            /\ hresp.result.found =>
                 /\ "item" \in DOMAIN hresp.result
                 /\ byUri # {} => \E it \in byUri : hresp.result.item = ItemInfo(it)

(* The not-found half on its own *)
NotFoundIsSuccess ==
    (hn > 0 /\ LastType = "get_browser_item") =>
        /\ hresp.status = "success"
        /\ (~hresp.result.found) => "item" \notin DOMAIN hresp.result
        /\ (FindBrowserItemByUri(Browser, Get(LastParams, "uri", ""), MaxDepth, 0) = NoItem
              /\ ~PathLeads(Get(LastParams, "path", << >>))) => ~hresp.result.found

-----------------------------------------------------------------------------
(* The workers at shutdown *)

Live(c) == wstate[c] \in {"recv", "wait"}

(* C22: a worker exits when the peer closes the connection, on a socket    *)
(* error, and when the running flag is cleared: once disconnect() has       *)
(* cleared the flag, every live worker exits in the end                     *)
C22_WorkersExit ==
    /\ \A c \in Conns : (Live(c) /\ peer[c] # "open") ~> ~Live(c)
    /\ (impl = "AbletonMCP" /\ ~running) ~> (\A c \in Conns : ~Live(c))

(* What holds of it: the worker exits once the peer has closed or the      *)
(* socket is dead; with the flag cleared it exits at its next loop test,    *)
(* which it reaches only when recv returns                                  *)
WorkerExitsOnPeer ==
    /\ \A c \in Conns : (Live(c) /\ peer[c] # "open") ~> ~Live(c)
    /\ [][\A c \in Conns : ~running /\ Live(c) /\ wstate'[c] # wstate[c] =>
                wstate'[c] \in {"exited", "wait"}]_vars
    /\ \A c \in Conns : (~running /\ wstate[c] = "wait") ~> ~Live(c)

-----------------------------------------------------------------------------
(* The accept loop at shutdown *)

ShutDown == ~running /\ ~listening

(* A worker blocked in recv: nothing to read, and the peer has not closed *)
BlockedInRecv(c) == wstate[c] = "recv" /\ inbox[c] = <<>> /\ peer[c] = "open"

-----------------------------------------------------------------------------
(* One worker per accepted connection *)

(* C27: in both accept loops each accepted connection is handed to exactly *)
(* one worker thread: none is left without a worker and none gets two       *)
C27_OneWorkerPerConnection == \A c \in accepted : spawned[c] = 1

(* What holds: one worker per connection where the loop has a target for   *)
(* the thread, none where SocketServer has no client_handler                *)
OneWorkerWithHandler ==
    \A c \in accepted : spawned[c] = IF HasHandler THEN 1 ELSE 0

-----------------------------------------------------------------------------
(* The tool functions *)

CouldNotConnect == "Could not connect to Ableton. Make sure the Remote Script is running."

(* C21: a tool function returns a string and raises nothing, whatever the  *)
(* calls under it do: a result, an error envelope, a transport failure in   *)
(* send_command, or no connection from get_ableton_connection               *)
C21_ToolsReturnStrings ==
    /\ tret.kind # "raised"
    /\ tret.value \in STRING
    /\ (tool # NoTool /\ tstep = 0) => tret.kind = "returned"

C21_Witness ==
    /\ tstep = 0
    /\ gOutcome.kind = "raised"
    /\ tret = Str(ErrorPrefix(tool.name) \o CouldNotConnect)

(* The other outcomes of C21 happen too: a result, an error envelope and a *)
(* transport failure                                                        *)
ToolOutcomesSeen(origin) ==
    /\ tstep = 0
    /\ tlog # <<>>
    /\ tlog[Len(tlog)].outcome.kind = "raised"
    /\ tlog[Len(tlog)].outcome.origin = origin

-----------------------------------------------------------------------------
(* The commands both sides take for state-mutating *)

InFlight == CommandType(ccmd)

(* C24: a command the server runs on the main thread is sent by            *)
(* send_command as a modifying command, with the 100 ms delays and the      *)
(* 15 s timeout, and a command send_command takes for modifying is one the  *)
(* server knows                                                             *)
C24_MutatingAgreed ==
    cpc = "receiving" =>
        /\ InFlight \in MutatingCommands =>
                /\ is_modifying_command(InFlight)
                /\ SendDelay(InFlight) = 100
                /\ SendTimeout(InFlight) = 15
        /\ is_modifying_command(InFlight) =>
                InFlight \in MutatingCommands \cup ReadOnlyCommands

(* The command types on which the two lists differ *)
ModifyingOnlyForServer == {t \in MutatingCommands : ~is_modifying_command(t)}
ModifyingOnlyForClient ==
    {t \in {"create_midi_track", "create_audio_track", "set_track_name", "create_clip",
            "add_notes_to_clip", "set_clip_name", "set_tempo", "fire_clip", "stop_clip",
            "set_device_parameter", "start_playback", "stop_playback",
            "load_instrument_or_effect"} : t \notin MutatingCommands \cup ReadOnlyCommands}

(* What holds: the lists agree on every command but these *)
MutatingAgreedBut ==
    /\ ModifyingOnlyForServer = {"load_browser_item"}
    /\ ModifyingOnlyForClient =
            {"create_audio_track", "set_device_parameter", "load_instrument_or_effect"}
    /\ (cpc = "receiving" /\ InFlight \in MutatingCommands \ ModifyingOnlyForServer) =>
            /\ SendDelay(InFlight) = 100
            /\ SendTimeout(InFlight) = 15

-----------------------------------------------------------------------------
(* load_drum_kit *)

DrumKit == tool.name = "load_drum_kit"

LoadCommand(uri) ==
    Command("load_browser_item", [track_index |-> tool.args.track_index, item_uri |-> uri])

ReturnedAt(i) == tlog[i].outcome.kind = "returned"

(* The commands of load_drum_kit in their order, each sent only after the  *)
(* one before it returned what the next needs                               *)
DrumKitOrder ==
    DrumKit =>
        /\ Len(tlog) <= 3
        /\ Len(tlog) >= 1 => tlog[1].command = LoadCommand(tool.args.rack_uri)
        /\ Len(tlog) >= 2 =>
                /\ ReturnedAt(1)
                /\ Get(tlog[1].outcome.value, "loaded", FALSE)
                /\ tlog[2].command =
                        Command("get_browser_items_at_path", [path |-> tool.args.kit_path])
        /\ Len(tlog) >= 3 =>
                /\ ReturnedAt(2)
                /\ "error" \notin DOMAIN tlog[2].outcome.value
                /\ LoadableKits(tlog[2].outcome.value) # <<>>
                /\ tlog[3].command = LoadCommand(LoadableKits(tlog[2].outcome.value)[1].uri)

(* The strings of load_drum_kit that say the rack was loaded *)
RackLoadedReports ==
    {"Loaded drum rack but failed to find drum kit: " \o e :
        e \in {"Path part 'nope' not found", "Unknown or unavailable category: nope"}}
    \cup {"Loaded drum rack but no loadable drum kits found at '"
            \o JoinPath(tool.args.kit_path) \o "'"}
    \cup {"Loaded drum rack and kit '" \o name \o "' on track "
            \o ToString(tool.args.track_index) : name \in {"Kit"}}

(* The rack is on the track still *)
RackOnTrack ==
    \E i \in 1..Len(song.tracks[tool.args.track_index + 1].devices) :
        song.tracks[tool.args.track_index + 1].devices[i] = "Drum Rack"

(* load_drum_kit has returned after the rack load had returned loaded *)
RackLoadedAndDone == DrumKit /\ tstep = 0 /\ Len(tlog) >= 2

(* C30: load_drum_kit sends load_browser_item(rack),                       *)
(* get_browser_items_at_path(kit_path), load_browser_item(kit) in that      *)
(* order, the second only after the rack load returned loaded, the third    *)
(* only after the lookup returned no error and a loadable item, whose URI   *)
(* it uses; when a later step fails the rack stays loaded and the string    *)
(* returned says that it was loaded                                         *)
C30_DrumKitSequence ==
    /\ DrumKitOrder
    /\ RackLoadedAndDone => RackOnTrack /\ tret.value \in RackLoadedReports

(* What holds of the last part: the rack stays loaded, and the string says *)
(* so when the later calls of send_command returned                         *)
DrumKitReports ==
    /\ DrumKitOrder
    /\ RackLoadedAndDone =>
            /\ RackOnTrack
            /\ ReturnedAt(Len(tlog)) => tret.value \in RackLoadedReports
            /\ ~ReturnedAt(Len(tlog)) =>
                    tret = Caught(tool, tlog[Len(tlog)].outcome.message)

-----------------------------------------------------------------------------
(* load_browser_item and the selected track *)

LoadsItem == hn > 0 /\ LastType = "load_browser_item"

(* No item of the browser, under any root category and at any depth of the *)
(* tree, has the URI asked for                                              *)
NoSuchItem ==
    \A it \in ItemsOf(BrowserAttrs, MaxDepth + 1) : it.uri # LastParams.item_uri

DevicesOn(s, track_index) == s.tracks[track_index + 1].devices

(* C35: load_browser_item with a track_index in range and an item_uri that *)
(* matches no browser item answers with an error envelope and changes       *)
(* nothing: not the selected track, not the devices; the selected track     *)
(* changes only where the item was found, together with the load            *)
C35_NoItemNoEffect ==
    LoadsItem =>
        /\ (TrackInRange /\ NoSuchItem) =>
                /\ hresp.status = "error"
                /\ hresp.message =
                        "Browser item with URI '" \o LastParams.item_uri \o "' not found"
                /\ song = hprior
        /\ song.selected_track # hprior.selected_track =>
                /\ hresp.status = "success"
                /\ hresp.result.loaded
                /\ ~NoSuchItem
                /\ song.selected_track = LastParams.track_index
                /\ DevicesOn(song, LastParams.track_index) =
                        Append(DevicesOn(hprior, LastParams.track_index),
                               hresp.result.item_name)

C35_Witness ==
    /\ LoadsItem
    /\ TrackInRange
    /\ NoSuchItem
    /\ LastParams.track_index # hprior.selected_track
    /\ hresp.status = "error"
    /\ song = hprior

-----------------------------------------------------------------------------
(* A request that is a JSON value and no object *)

(* The worker of c parses a value that is no object in this step *)
ParsesNonObject(c) ==
    /\ nParsed'[c] = nParsed[c] + 1
    /\ lastParsed'[c].kind \notin {"object", "invalid"}

(* C33: a request that is valid JSON and no object gets one error envelope *)
(* and the connection is closed: no handler runs, nothing is scheduled, the *)
(* song is as before, and the worker has left its loop for good             *)
C33_NonObjectCloses ==
    /\ [][\A c \in Conns : ParsesNonObject(c) =>
            /\ nSent'[c] = nSent[c] + 1
            /\ lastSent'[c].resp.status = "error"
            /\ lastSent'[c].of = NoTask
            /\ wstate'[c] = "exited"
            /\ song' = song
            /\ mainQueue' = mainQueue
            /\ respQ' = respQ
            /\ lastRun' = lastRun]_vars
    /\ [][\A c \in Conns : wstate[c] = "exited" =>
            /\ wstate'[c] = "exited"
            /\ nSent'[c] = nSent[c]
            /\ nParsed'[c] = nParsed[c]]_vars

C33_Witness ==
    \E c \in Conns :
        /\ running
        /\ peer[c] = "open"
        /\ wstate[c] = "exited"
        /\ lastParsed[c].kind = "number"
        /\ lastSent[c].rid = nParsed[c]
        /\ lastSent[c].resp.message = "object has no attribute 'get'"

-----------------------------------------------------------------------------
(* Requests after the running flag is cleared *)

(* The worker of c parses a command in this step and processes it *)
Dispatches(c) ==
    /\ nParsed'[c] = nParsed[c] + 1
    /\ lastParsed'[c].kind = "object"

(* C34: once disconnect() has cleared the running flag no worker           *)
(* dispatches a command, and a request that arrives after it on a           *)
(* connection still open changes nothing in the host                        *)
C34_NoDispatchAfterShutdown ==
    [][~running => \A c \in Conns :
            /\ ~Dispatches(c)
            /\ (nParsed'[c] # nParsed[c]) =>
                    song' = song /\ mainQueue' = mainQueue]_vars

(* What holds: with the flag cleared a worker in recv takes what arrives   *)
(* once more, dispatches it if it is a command, and then leaves the loop:   *)
(* it is not in recv again                                                  *)
OneMoreAfterShutdown ==
    [][~running => \A c \in Conns :
            /\ wstate[c] # "recv" => wstate'[c] # "recv"
            /\ Dispatches(c) => wstate[c] = "recv" /\ wstate'[c] \in {"wait", "exited"}]_vars

-----------------------------------------------------------------------------
(* The buffer of a worker that no later data can make a JSON value of *)

(* A text that appending can still make one JSON value of: the empty text, *)
(* an open bracket, or an open brace followed by members only               *)
CanBeCompleted(text) ==
    \/ text = <<>>
    \/ text = <<LSQ>>
    \/ /\ text[1] = LB
       /\ \A i \in 2..Len(text) : IsMember(text[i])

(* The buffer of c holds text that is no JSON value and no beginning of one *)
PoisonedBuffer(c) ==
    /\ wstate[c] \in {"recv", "wait"}
    /\ Loads(buffer[c]).kind = "invalid"
    /\ ~CanBeCompleted(buffer[c])

(* The worker of c leaves its buffer as it is or appends to it *)
BufferGrows(c) ==
    /\ Len(buffer'[c]) >= Len(buffer[c])
    /\ SubSeq(buffer'[c], 1, Len(buffer[c])) = buffer[c]

(* C32: the buffer is cleared only by a successful parse; once it holds     *)
(* text that appending cannot make a JSON value of, it is never cleared    *)
(* while the connection lasts, and the worker sends no response to any      *)
(* bytes it receives from then on.                                          *)
C32_PoisonedBufferSilent ==
    /\ [][\A c \in Conns :
            (buffer'[c] = <<>> /\ buffer[c] # <<>>) =>
                (nParsed'[c] = nParsed[c] + 1 \/ wstate'[c] = "exited")]_vars
    /\ [][\A c \in Conns : PoisonedBuffer(c) =>
            /\ wstate'[c] # "exited" => (BufferGrows(c) /\ PoisonedBuffer(c)')
            /\ nParsed'[c] = nParsed[c]
            /\ nSent'[c] = nSent[c]
            /\ stray'[c] = stray[c]]_vars

(* What holds of a poisoned buffer: it is never cleared and no request is  *)
(* parsed or answered; the one response the worker still sends is the      *)
(* error response for data that does not decode, which leaves the buffer   *)
(* as it was                                                                *)
PoisonedButDecodeErrors ==
    /\ [][\A c \in Conns :
            (buffer'[c] = <<>> /\ buffer[c] # <<>>) =>
                (nParsed'[c] = nParsed[c] + 1 \/ wstate'[c] = "exited")]_vars
    /\ [][\A c \in Conns : PoisonedBuffer(c) =>
            /\ wstate'[c] # "exited" => (BufferGrows(c) /\ PoisonedBuffer(c)')
            /\ nParsed'[c] = nParsed[c]
            /\ nSent'[c] = nSent[c]
            /\ stray'[c] # stray[c] =>
                /\ stray'[c] = stray[c] + 1
                /\ wstate'[c] # "exited" => buffer'[c] = buffer[c]
                /\ \E n \in 1..Len(inbox[c]) : ~Decode(SubSeq(inbox[c], 1, n)).ok]_vars

(* A poisoned buffer after which the worker received more data and kept    *)
(* silent: two requests were written and the worker parsed none             *)
PoisonedAndSilent ==
    \E c \in Conns :
        /\ PoisonedBuffer(c)
        /\ nWritten[c] = 2 /\ inbox[c] = <<>>
        /\ nSent[c] = 0 /\ stray[c] = 0

-----------------------------------------------------------------------------
(* The responses a call of send_command can read, checked under SpecClient *)

(* text begins with part *)
BeginsWith(text, part) ==
    /\ Len(part) <= Len(text)
    /\ SubSeq(text, 1, Len(part)) = part

(* A call of send_command begins to wait for its response in this step *)
CallWrites == cpc = "idle" /\ cpc' = "receiving"

(* A call of send_command returns a result in this step *)
CallReturns == nOutcomes' = nOutcomes + 1 /\ lastOutcome'.kind = "returned"

(* Bytes arrive on the socket the client holds in this step *)
BytesArrive == sock # 0 /\ sock' = sock /\ Len(rx'[sock]) > Len(rx[sock])

(* C31: a result that send_command returns is the server's response to the *)
(* command written in that same call, whatever calls came before: between  *)
(* calls the connection held carries no unread response and no unanswered  *)
(* request; a call starts with no bytes of its own and on a socket with    *)
(* nothing to read; the only request answered on the socket while the call *)
(* waits is its own; and the result is parsed from the bytes that arrived  *)
(* in answer to it.                                                         *)
C31_NoStaleResponse ==
    /\ []((cpc = "idle" /\ sock # 0) => (rx[sock] = <<>> /\ pending[sock] = <<>>))
    /\ [](cpc = "receiving" =>
            /\ pending[sock] \in {<<>>, <<ccmd>>}
            /\ pending[sock] # <<>> => (rx[sock] = <<>> /\ rchunks = <<>>))
    /\ [][/\ CallWrites => (rchunks' = <<>> /\ rx'[sock'] = <<>>
                            /\ pending'[sock'] \in {<<>>, <<ccmd'>>})
          /\ BytesArrive =>
                /\ cpc = "receiving" /\ pending[sock] = <<ccmd>>
                /\ \E a \in ServerAnswers(ccmd, song) :
                        BeginsWith(Encode(Dumps(a.resp)), rx'[sock])
          /\ CallReturns =>
                /\ cpc = "receiving" /\ lastOutcome'.used = sock
                /\ \E n \in 1..Len(rx[sock]) :
                    LET response == LoadsBytes(rchunks \o SubSeq(rx[sock], 1, n)) IN
                    /\ response.kind = "object"
                    /\ lastOutcome'.value = Get(response.value, "result", << >>)]_vars

(* C31 witness: a call returned its result on a second socket while the    *)
(* request of an earlier call, which timed out, is still unanswered on the *)
(* socket that call let go of                                               *)
C31_Witness ==
    /\ lastOutcome.kind = "returned" /\ lastOutcome.used = 2
    /\ 1 \in failed /\ link[1] = "open" /\ pending[1] # <<>>

====
